---------------------------- MODULE Spec2Model ----------------------------
(***************************************************************************)
(* Model of the host-side device server controller, app/src/server.c.      *)
(*                                                                         *)
(* Threads: the worker (run_server), the process observer (which calls     *)
(* sc_server_on_terminated), and the caller of the public API             *)
(* (sc_server_start / stop / join / destroy).  The remote process and the  *)
(* device are the environment.                                             *)
(*                                                                         *)
(* Strings that the code formats (asprintf) are sequences of one-character *)
(* strings, so that a formatted value can be parsed back.                  *)
(*                                                                         *)
(* Environment assumptions: allocation (strdup, asprintf) never fails.     *)
(***************************************************************************)
EXTENDS Integers, Sequences, FiniteSets, TLC

-----------------------------------------------------------------------------
(* 32-bit unsigned values are kept as two 16-bit limbs [hi, lo], so that    *)
(* the whole uint32_t range is representable.                               *)

U32(h, l) == [hi |-> h, lo |-> l]

U32Zero == U32(0, 0)

IsZero32(v) == v.hi = 0 /\ v.lo = 0

\* v / 16 and v % 16 on the two limbs
Div16(v) == U32(v.hi \div 16, (v.hi % 16) * 4096 + (v.lo \div 16))

Mod16(v) == v.lo % 16

HexChars == <<"0","1","2","3","4","5","6","7","8","9","a","b","c","d","e","f">>

DecChars == <<"0","1","2","3","4","5","6","7","8","9">>

RECURSIVE HexDigits(_)
\* the digits printf's %x conversion produces, most significant first
HexDigits(v) ==
    IF IsZero32(v) THEN << >>
    ELSE HexDigits(Div16(v)) \o <<HexChars[Mod16(v) + 1]>>

RECURSIVE PadLeft(_, _, _)
\* the '0' flag with a minimum field width
PadLeft(s, width, ch) ==
    IF Len(s) >= width THEN s ELSE PadLeft(<<ch>> \o s, width, ch)

\* printf("%08x", v)
Fmt08x(v) == PadLeft(IF IsZero32(v) THEN <<"0">> ELSE HexDigits(v), 8, "0")

RECURSIVE DecDigits(_)
DecDigits(n) ==
    IF n = 0 THEN << >> ELSE DecDigits(n \div 10) \o <<DecChars[(n % 10) + 1]>>

\* printf("%" PRIu32, n), printf("%" PRIu16, n)
FmtUnsigned(n) == IF n = 0 THEN <<"0">> ELSE DecDigits(n)

\* printf("%" PRIi8, n)
FmtSigned(n) == IF n < 0 THEN <<"-">> \o FmtUnsigned(-n) ELSE FmtUnsigned(n)

-----------------------------------------------------------------------------
(* Configuration: struct sc_server_params.                                  *)

\* a NULL char pointer (distinct from every string, the empty one included)
NULL == <<"<NULL>">>

Chars(s) ==
    CASE s = "false"    -> <<"f","a","l","s","e">>
      [] s = "true"     -> <<"t","r","u","e">>
      [] s = "camera"   -> <<"c","a","m","e","r","a">>
      [] s = "mic"      -> <<"m","i","c">>
      [] s = "front"    -> <<"f","r","o","n","t">>
      [] s = "back"     -> <<"b","a","c","k">>
      [] s = "external" -> <<"e","x","t","e","r","n","a","l">>
      [] s = "h264"     -> <<"h","2","6","4">>
      [] s = "h265"     -> <<"h","2","6","5">>
      [] s = "av1"      -> <<"a","v","1">>
      [] s = "opus"     -> <<"o","p","u","s">>
      [] s = "aac"      -> <<"a","a","c">>
      [] s = "raw"      -> <<"r","a","w">>
      [] s = "verbose"  -> <<"v","e","r","b","o","s","e">>
      [] s = "debug"    -> <<"d","e","b","u","g">>
      [] s = "info"     -> <<"i","n","f","o">>
      [] s = "warn"     -> <<"w","a","r","n">>
      [] s = "error"    -> <<"e","r","r","o","r">>
      [] s = "scrcpy_"  -> <<"s","c","r","c","p","y","_">>
      [] s = "(null)"   -> <<"(","n","u","l","l",")">>

\* enum sc_log_level values, by name
LogLevels == {"SC_LOG_LEVEL_VERBOSE", "SC_LOG_LEVEL_DEBUG", "SC_LOG_LEVEL_INFO",
              "SC_LOG_LEVEL_WARN", "SC_LOG_LEVEL_ERROR"}

log_level_to_server_string(level) ==
    CASE level = "SC_LOG_LEVEL_VERBOSE" -> Chars("verbose")
      [] level = "SC_LOG_LEVEL_DEBUG"   -> Chars("debug")
      [] level = "SC_LOG_LEVEL_INFO"    -> Chars("info")
      [] level = "SC_LOG_LEVEL_WARN"    -> Chars("warn")
      [] level = "SC_LOG_LEVEL_ERROR"   -> Chars("error")

sc_server_get_codec_name(codec) ==
    CASE codec = "SC_CODEC_H264" -> Chars("h264")
      [] codec = "SC_CODEC_H265" -> Chars("h265")
      [] codec = "SC_CODEC_AV1"  -> Chars("av1")
      [] codec = "SC_CODEC_OPUS" -> Chars("opus")
      [] codec = "SC_CODEC_AAC"  -> Chars("aac")
      [] codec = "SC_CODEC_RAW"  -> Chars("raw")
      [] OTHER                   -> Chars("(null)")

\* The configuration in which every option has its default value.
DefaultParams ==
    [ scid                   |-> U32(2587, 11325),  \* 0x0a1b2c3d
      log_level              |-> "SC_LOG_LEVEL_INFO",
      video                  |-> TRUE,
      audio                  |-> TRUE,
      control                |-> TRUE,
      video_bit_rate         |-> 0,
      audio_bit_rate         |-> 0,
      video_codec            |-> "SC_CODEC_H264",
      audio_codec            |-> "SC_CODEC_OPUS",
      video_source           |-> "SC_VIDEO_SOURCE_DISPLAY",
      audio_source           |-> "SC_AUDIO_SOURCE_OUTPUT",
      max_size               |-> 0,
      max_fps                |-> 0,
      lock_video_orientation |-> -1,
      crop                   |-> NULL,
      display_id             |-> 0,
      camera_id              |-> NULL,
      camera_position        |-> "SC_CAMERA_POSITION_ALL",
      show_touches           |-> FALSE,
      stay_awake             |-> FALSE,
      video_codec_options    |-> NULL,
      audio_codec_options    |-> NULL,
      video_encoder          |-> NULL,
      audio_encoder          |-> NULL,
      power_off_on_close     |-> FALSE,
      clipboard_autosync     |-> TRUE,
      downsize_on_error      |-> TRUE,
      cleanup                |-> TRUE,
      power_on               |-> TRUE,
      list_encoders          |-> FALSE,
      list_displays          |-> FALSE,
      list_cameras           |-> FALSE,
      tcpip                  |-> FALSE,
      tcpip_dst              |-> NULL,
      force_adb_forward      |-> FALSE,
      kill_adb_on_close      |-> FALSE ]

\* The values each option is drawn from when a configuration is built.
ParamValues ==
    [ scid                   |-> {U32(0, 0), U32(0, 1), U32(0, 43981),
                                  U32(2587, 11325), U32(32768, 0),
                                  U32(65535, 65535)},
      log_level              |-> LogLevels,
      video                  |-> BOOLEAN,
      audio                  |-> BOOLEAN,
      control                |-> BOOLEAN,
      video_bit_rate         |-> {0, 8000000},
      audio_bit_rate         |-> {0, 128000},
      video_codec            |-> {"SC_CODEC_H264", "SC_CODEC_H265", "SC_CODEC_AV1"},
      audio_codec            |-> {"SC_CODEC_OPUS", "SC_CODEC_AAC", "SC_CODEC_RAW"},
      video_source           |-> {"SC_VIDEO_SOURCE_DISPLAY", "SC_VIDEO_SOURCE_CAMERA"},
      audio_source           |-> {"SC_AUDIO_SOURCE_OUTPUT", "SC_AUDIO_SOURCE_MIC"},
      max_size               |-> {0, 1024},
      max_fps                |-> {0, 60},
      lock_video_orientation |-> {-1, 0, 3},
      crop                   |-> {NULL, <<"1",":","1",":","0",":","0">>},
      display_id             |-> {0, 2},
      camera_id              |-> {NULL, <<"1">>},
      camera_position        |-> {"SC_CAMERA_POSITION_ALL", "SC_CAMERA_POSITION_FRONT",
                                  "SC_CAMERA_POSITION_BACK",
                                  "SC_CAMERA_POSITION_EXTERNAL"},
      show_touches           |-> BOOLEAN,
      stay_awake             |-> BOOLEAN,
      video_codec_options    |-> {NULL, <<"k","=","1">>},
      audio_codec_options    |-> {NULL, <<"k","=","1">>},
      video_encoder          |-> {NULL, <<"e","n","c">>},
      audio_encoder          |-> {NULL, <<"e","n","c">>},
      power_off_on_close     |-> BOOLEAN,
      clipboard_autosync     |-> BOOLEAN,
      downsize_on_error      |-> BOOLEAN,
      cleanup                |-> BOOLEAN,
      power_on               |-> BOOLEAN,
      list_encoders          |-> BOOLEAN,
      list_displays          |-> BOOLEAN,
      list_cameras           |-> BOOLEAN,
      tcpip                  |-> BOOLEAN,
      tcpip_dst              |-> {NULL},
      force_adb_forward      |-> BOOLEAN,
      kill_adb_on_close      |-> BOOLEAN ]

-----------------------------------------------------------------------------
(* execute_server: the key=value arguments (the dynamically allocated part  *)
(* of cmd[], from dyn_idx on).  An argument "key=value" is the record       *)
(* [key, val]; val holds the characters printed after the '='.              *)

Arg(k, v) == [key |-> k, val |-> v]

\* ADD_PARAM under an if
AddParamIf(cond, k, v) == IF cond THEN <<Arg(k, v)>> ELSE << >>

\* a variant with the "%x" conversion, without the padding
ScidParam_NoPad(p) ==
    Arg("scid", IF IsZero32(p.scid) THEN <<"0">> ELSE HexDigits(p.scid))

\* ADD_PARAM("scid=%08x", params->scid)
ScidParam(p) == Arg("scid", Fmt08x(p.scid))

CameraPositionParam(p) ==
    IF p.video_source = "SC_VIDEO_SOURCE_CAMERA"
       /\ p.camera_position # "SC_CAMERA_POSITION_ALL"
    THEN CASE p.camera_position = "SC_CAMERA_POSITION_FRONT" ->
                  <<Arg("camera_position", Chars("front"))>>
           [] p.camera_position = "SC_CAMERA_POSITION_BACK" ->
                  <<Arg("camera_position", Chars("back"))>>
           [] p.camera_position = "SC_CAMERA_POSITION_EXTERNAL" ->
                  <<Arg("camera_position", Chars("external"))>>
           [] OTHER -> << >>
    ELSE << >>

\* a variant that writes the video option whatever its value
StreamParams_Always(p) ==
       <<Arg("video", IF p.video THEN Chars("true") ELSE Chars("false"))>>
    \o AddParamIf(p.video_bit_rate # 0, "video_bit_rate", FmtUnsigned(p.video_bit_rate))
    \o AddParamIf(~p.audio, "audio", Chars("false"))
    \o AddParamIf(p.audio_bit_rate # 0, "audio_bit_rate", FmtUnsigned(p.audio_bit_rate))

\* server.c lines 229-240
StreamParams(p) ==
       AddParamIf(~p.video, "video", Chars("false"))
    \o AddParamIf(p.video_bit_rate # 0, "video_bit_rate", FmtUnsigned(p.video_bit_rate))
    \o AddParamIf(~p.audio, "audio", Chars("false"))
    \o AddParamIf(p.audio_bit_rate # 0, "audio_bit_rate", FmtUnsigned(p.audio_bit_rate))

\* The arguments execute_server passes after SCRCPY_VERSION, in order.
ExecuteServerParams(p, forward) ==
       <<ScidParam(p)>>
    \o <<Arg("log_level", log_level_to_server_string(p.log_level))>>
    \o StreamParams(p)
    \o AddParamIf(p.video_codec # "SC_CODEC_H264", "video_codec",
                  sc_server_get_codec_name(p.video_codec))
    \o AddParamIf(p.audio_codec # "SC_CODEC_OPUS", "audio_codec",
                  sc_server_get_codec_name(p.audio_codec))
    \o AddParamIf(p.video_source # "SC_VIDEO_SOURCE_DISPLAY", "video_source",
                  Chars("camera"))
    \o AddParamIf(p.audio_source # "SC_AUDIO_SOURCE_OUTPUT", "audio_source",
                  Chars("mic"))
    \o AddParamIf(p.max_size # 0, "max_size", FmtUnsigned(p.max_size))
    \o AddParamIf(p.max_fps # 0, "max_fps", FmtUnsigned(p.max_fps))
    \o AddParamIf(p.lock_video_orientation # -1, "lock_video_orientation",
                  FmtSigned(p.lock_video_orientation))
    \o AddParamIf(forward, "tunnel_forward", Chars("true"))
    \o AddParamIf(p.crop # NULL, "crop", p.crop)
    \o AddParamIf(~p.control, "control", Chars("false"))
    \o AddParamIf(p.video_source = "SC_VIDEO_SOURCE_DISPLAY" /\ p.display_id # 0,
                  "display_id", FmtUnsigned(p.display_id))
    \o AddParamIf(p.video_source = "SC_VIDEO_SOURCE_CAMERA" /\ p.camera_id # NULL,
                  "camera_id", p.camera_id)
    \o CameraPositionParam(p)
    \o AddParamIf(p.show_touches, "show_touches", Chars("true"))
    \o AddParamIf(p.stay_awake, "stay_awake", Chars("true"))
    \o AddParamIf(p.video_codec_options # NULL, "video_codec_options",
                  p.video_codec_options)
    \o AddParamIf(p.audio_codec_options # NULL, "audio_codec_options",
                  p.audio_codec_options)
    \o AddParamIf(p.video_encoder # NULL, "video_encoder", p.video_encoder)
    \o AddParamIf(p.audio_encoder # NULL, "audio_encoder", p.audio_encoder)
    \o AddParamIf(p.power_off_on_close, "power_off_on_close", Chars("true"))
    \o AddParamIf(~p.clipboard_autosync, "clipboard_autosync", Chars("false"))
    \o AddParamIf(~p.downsize_on_error, "downsize_on_error", Chars("false"))
    \o AddParamIf(~p.cleanup, "cleanup", Chars("false"))
    \o AddParamIf(~p.power_on, "power_on", Chars("false"))
    \o AddParamIf(p.list_encoders, "list_encoders", Chars("true"))
    \o AddParamIf(p.list_displays, "list_displays", Chars("true"))
    \o AddParamIf(p.list_cameras, "list_cameras", Chars("true"))

\* asprintf(&server->device_socket_name, SC_SOCKET_NAME_PREFIX "%08x", scid)
DeviceSocketName(scid) == Chars("scrcpy_") \o Fmt08x(scid)

-----------------------------------------------------------------------------
(* Bounds and program constants.                                            *)

\* how many times sc_server_stop may be called in one run
MaxStops == 2

\* how many options of a configuration may differ from their default
MaxNonDefault == 2

SC_ADB_PORT_DEFAULT == 5555

\* unsigned attempts = 100 (forward-connect probe)
ConnectAttempts == 100

\* unsigned attempts = 40 (TCP/IP mode wait)
TcpipAttempts == 40

SC_SOCKET_NONE == 0

-----------------------------------------------------------------------------
(* State.                                                                   *)

VARIABLES
    params,             \* server->params
    pc,                 \* where the worker thread (run_server) is
    stopped,            \* server->stopped
    interrupted,        \* server->intr: the sticky interrupted flag
    serial,             \* server->serial
    device_socket_name, \* server->device_socket_name
    tunnel,             \* server->tunnel: [enabled, forward, server_socket]
    sockets,            \* server->video_socket, audio_socket, control_socket
    local,              \* locals of the function the worker is in
    fds,                \* the socket descriptors currently open
    proc,               \* the remote process handle (pid) and the process
    observer,           \* the process observer: none, running, finished, joined
    remote,             \* what the remote server has done so far
    device,             \* the device and the adb daemon
    api,                \* the API caller: stop calls, joined, destroyed
    h                   \* history: callbacks fired, accepts, spawn arguments

vars == <<params, pc, stopped, interrupted, serial, device_socket_name, tunnel,
          sockets, local, fds, proc, observer, remote, device, api, h>>

Streams == <<"video", "audio", "control">>

\* the streams the configuration enables: E
Enabled(p) == {s \in {"video", "audio", "control"} : p[s]}

NumEnabled(p) == Cardinality(Enabled(p))

ListMode(p) == p.list_encoders \/ p.list_displays \/ p.list_cameras

\* strchr(s, ':') != NULL
ContainsColon(s) == \E i \in 1..Len(s) : s[i] = ":"

\* asprintf(&ip_port, "%s:%" PRIu16, ip, port)
append_port(ip, port) == ip \o <<":">> \o FmtUnsigned(port)

UsbSerial == <<"A","1","B","2">>

DeviceIp == <<"1","0",".","1">>

TcpipSerial == append_port(DeviceIp, SC_ADB_PORT_DEFAULT)

\* the configurations of the controller runs
OverrideAll(p, fs, v) == [f \in DOMAIN p |-> IF f \in fs THEN v ELSE p[f]]

StreamConfigs ==
    { [DefaultParams EXCEPT !.video = v, !.audio = a, !.control = c] :
        v \in BOOLEAN, a \in BOOLEAN, c \in BOOLEAN }

RunConfigs ==
    StreamConfigs
    \cup { OverrideAll(DefaultParams, {f}, TRUE) :
             f \in {"list_encoders", "list_displays", "list_cameras", "tcpip",
                    "force_adb_forward", "kill_adb_on_close"} }
    \cup { OverrideAll(DefaultParams, {"list_encoders", "kill_adb_on_close"}, TRUE) }
    \cup { [DefaultParams EXCEPT !.tcpip = TRUE, !.tcpip_dst = d] :
             d \in {DeviceIp, append_port(DeviceIp, 4444)} }

NoLocals == [video_socket |-> SC_SOCKET_NONE, audio_socket |-> SC_SOCKET_NONE,
             control_socket |-> SC_SOCKET_NONE, first_socket |-> SC_SOCKET_NONE,
             read_socket |-> SC_SOCKET_NONE, attempts |-> 0,
             device_serial |-> NULL, ip |-> NULL,
             reads |-> 0, wait_ok |-> FALSE]

InitCommon ==
    /\ stopped = FALSE
    /\ interrupted = FALSE
    /\ serial = NULL
    /\ device_socket_name = NULL
    /\ tunnel = [enabled |-> FALSE, forward |-> FALSE,
                 server_socket |-> SC_SOCKET_NONE]
    /\ sockets = [video_socket |-> SC_SOCKET_NONE, audio_socket |-> SC_SOCKET_NONE,
                  control_socket |-> SC_SOCKET_NONE]
    /\ local = NoLocals
    /\ fds = {}
    /\ proc = [state |-> "none", killed |-> FALSE, reaped |-> FALSE, closed |-> 0]
    /\ observer = "none"
    /\ remote = [conns |-> 0, listening |-> FALSE, name |-> "none"]
    /\ api = [stopCalls |-> 0, joined |-> FALSE, destroyed |-> FALSE]
    /\ h = [cbLog |-> << >>, acceptLog |-> << >>, cmd |-> << >>, spawns |-> 0,
            badClose |-> 0, tunnelCloses |-> 0, adbKills |-> 0,
            adbLog |-> << >>,
            netInterrupts |-> << >>, watchdog |-> "none", teardown |-> << >>]

\* sc_server_init: the controller after construction, for each run configuration
Init ==
    /\ params \in RunConfigs
    /\ device \in [tcpport : {0, SC_ADB_PORT_DEFAULT, 4444}, tcpipRequested : {FALSE}]
    /\ (~params.tcpip \/ params.tcpip_dst # NULL) => device.tcpport = 0
    /\ pc = "idle"
    /\ InitCommon

-----------------------------------------------------------------------------
(* Helpers shared by the actions.                                           *)

\* The results a blocking adb command, connect or accept given the I/O handle
\* can have: once the handle is interrupted it fails; otherwise it succeeds or
\* fails for a reason of its own.
IntrResults == IF interrupted THEN {FALSE} ELSE BOOLEAN

\* net_socket(), net_accept(): the lowest descriptor not in use
NewFd == CHOOSE i \in 1..(Cardinality(fds) + 1) :
             i \notin fds /\ \A j \in 1..(i - 1) : j \in fds

RECURSIVE CloseList(_, _, _)
\* net_close() on each descriptor of a list, in order: the descriptors left
\* open and the number of closes of a descriptor that was not open
CloseList(list, open, bad) ==
    IF list = << >> THEN [fds |-> open, bad |-> bad]
    ELSE CloseList(Tail(list), open \ {Head(list)},
                   IF Head(list) \in open THEN bad ELSE bad + 1)

\* the descriptors of a list that are not SC_SOCKET_NONE
NotNone(list) == SelectSeq(list, LAMBDA x : x # SC_SOCKET_NONE)

\* server->cbs->cb(server, userdata) called by a thread
Fire(hist, cb, thread) ==
    [hist EXCEPT !.cbLog = Append(@, [cb |-> cb, thread |-> thread])]

\* sc_adb_tunnel_close: the listener (reverse mode) is closed and the tunnel is
\* disabled whatever the adb command returns
TunnelClosed == [tunnel EXCEPT !.enabled = FALSE]

TunnelCloseFds == IF tunnel.forward THEN << >> ELSE <<tunnel.server_socket>>

\* connections the remote has made that the host has not accepted yet
Pending ==
    remote.conns - Len(SelectSeq(h.acceptLog, LAMBDA x : x # SC_SOCKET_NONE))

-----------------------------------------------------------------------------
(* The worker thread: run_server, up to the payload push.                   *)

\* a variant of sc_adb_start_server that does not see the interruption
run_server_StartServer_Deaf ==
    /\ pc = "start_server"
    /\ \E ok \in BOOLEAN :
         pc' = IF ~ok THEN "error_connection_failed"
               ELSE IF params.tcpip_dst = NULL THEN "select_device"
               ELSE "configure_tcpip_known_address"
    /\ UNCHANGED <<params, stopped, interrupted, serial, device_socket_name,
                   tunnel, sockets, local, fds, proc, observer, remote, device,
                   api, h>>

\* sc_adb_start_server
run_server_StartServer ==
    /\ pc = "start_server"
    /\ \E ok \in IntrResults :
         pc' = IF ~ok THEN "error_connection_failed"
               ELSE IF params.tcpip_dst = NULL THEN "select_device"
               ELSE "configure_tcpip_known_address"
    /\ UNCHANGED <<params, stopped, interrupted, serial, device_socket_name,
                   tunnel, sockets, local, fds, proc, observer, remote, device,
                   api, h>>

\* sc_adb_select_device, then the choice between sc_server_configure_tcpip_
\* unknown_address (up to its test of the device type) and adopting the serial
run_server_SelectDevice ==
    /\ pc = "select_device"
    /\ \E ok \in IntrResults, d \in {UsbSerial, TcpipSerial} :
         IF ~ok
         THEN /\ pc' = "error_connection_failed"
              /\ UNCHANGED <<serial, local>>
         ELSE IF ~params.tcpip
         THEN /\ serial' = d
              /\ pc' = "push_server"
              /\ UNCHANGED local
         ELSE IF ContainsColon(d)   \* sc_adb_device_get_type(serial) is TCPIP
         THEN /\ serial' = d
              /\ pc' = "push_server"
              /\ UNCHANGED local
         ELSE /\ local' = [local EXCEPT !.device_serial = d]
              /\ pc' = "switch_get_device_ip"
              /\ UNCHANGED serial
    /\ UNCHANGED <<params, stopped, interrupted, device_socket_name, tunnel,
                   sockets, fds, proc, observer, remote, device, api, h>>

\* sc_server_switch_to_tcpip: sc_adb_get_device_ip
sc_server_switch_to_tcpip_GetIp ==
    /\ pc = "switch_get_device_ip"
    /\ \E ok \in IntrResults :
         IF ok
         THEN /\ local' = [local EXCEPT !.ip = DeviceIp]
              /\ pc' = "switch_get_adb_tcp_port"
         ELSE /\ pc' = "error_connection_failed"
              /\ UNCHANGED local
    /\ UNCHANGED <<params, stopped, interrupted, serial, device_socket_name,
                   tunnel, sockets, fds, proc, observer, remote, device, api, h>>

\* get_adb_tcp_port: the property's value, or 0 when getprop failed
get_adb_tcp_port == IF interrupted THEN {0} ELSE {0, device.tcpport}

\* a variant that builds the serial with SC_ADB_PORT_DEFAULT in every case
sc_server_switch_to_tcpip_GetPort_DefaultPort ==
    /\ pc = "switch_get_adb_tcp_port"
    /\ \E adb_port \in get_adb_tcp_port :
         IF adb_port # 0
         THEN /\ serial' = append_port(local.ip, SC_ADB_PORT_DEFAULT)
              /\ pc' = "connect_to_tcpip_disconnect"
         ELSE /\ pc' = "switch_adb_tcpip"
              /\ UNCHANGED serial
    /\ UNCHANGED <<params, stopped, interrupted, device_socket_name, tunnel,
                   sockets, local, fds, proc, observer, remote, device, api, h>>

\* sc_server_switch_to_tcpip: the first read of service.adb.tcp.port
sc_server_switch_to_tcpip_GetPort ==
    /\ pc = "switch_get_adb_tcp_port"
    /\ \E adb_port \in get_adb_tcp_port :
         IF adb_port # 0
         THEN \* TCP/IP mode already enabled: ip_port = append_port(ip, adb_port)
              /\ serial' = append_port(local.ip, adb_port)
              /\ pc' = "connect_to_tcpip_disconnect"
         ELSE /\ pc' = "switch_adb_tcpip"
              /\ UNCHANGED serial
    /\ UNCHANGED <<params, stopped, interrupted, device_socket_name, tunnel,
                   sockets, local, fds, proc, observer, remote, device, api, h>>

\* sc_server_switch_to_tcpip: sc_adb_tcpip(SC_ADB_PORT_DEFAULT)
sc_server_switch_to_tcpip_Tcpip ==
    /\ pc = "switch_adb_tcpip"
    /\ \E ok \in IntrResults :
         IF ok
         THEN /\ device' = [device EXCEPT !.tcpipRequested = TRUE]
              /\ pc' = "wait_tcpip_first_read"
         ELSE /\ pc' = "error_connection_failed"
              /\ UNCHANGED device
    /\ UNCHANGED <<params, stopped, interrupted, serial, device_socket_name,
                   tunnel, sockets, local, fds, proc, observer, remote, api, h>>

\* wait_tcpip_mode_enabled returns: its result, with the reads it has made
WaitReturns(l, ok) == [l EXCEPT !.wait_ok = ok, !.attempts = 0]

\* wait_tcpip_mode_enabled: the read before the loop
wait_tcpip_mode_enabled_FirstRead ==
    /\ pc = "wait_tcpip_first_read"
    /\ \E adb_port \in get_adb_tcp_port :
         IF adb_port = SC_ADB_PORT_DEFAULT
         THEN /\ local' = WaitReturns([local EXCEPT !.reads = @ + 1], TRUE)
              /\ pc' = "wait_tcpip_return"
         ELSE /\ local' = [local EXCEPT !.attempts = TcpipAttempts,
                                        !.reads = @ + 1]
              /\ pc' = "wait_tcpip_sleep"
    /\ UNCHANGED <<params, stopped, interrupted, serial, device_socket_name,
                   tunnel, sockets, fds, proc, observer, remote, device, api, h>>

\* a variant whose sleep does not look at the stopped flag
wait_tcpip_mode_enabled_Sleep_Deaf ==
    /\ pc = "wait_tcpip_sleep"
    /\ pc' = "wait_tcpip_read"
    /\ UNCHANGED <<params, stopped, interrupted, serial, device_socket_name,
                   tunnel, sockets, local, fds, proc, observer, remote, device,
                   api, h>>

\* wait_tcpip_mode_enabled: sc_server_sleep returns false once stopped
wait_tcpip_mode_enabled_Sleep ==
    /\ pc = "wait_tcpip_sleep"
    /\ pc' = IF stopped THEN "wait_tcpip_return" ELSE "wait_tcpip_read"
    /\ local' = IF stopped THEN WaitReturns(local, FALSE) ELSE local
    /\ UNCHANGED <<params, stopped, interrupted, serial, device_socket_name,
                   tunnel, sockets, fds, proc, observer, remote, device, api, h>>

\* a variant of the loop with while (attempts--)
wait_tcpip_mode_enabled_Read_PostDecrement ==
    /\ pc = "wait_tcpip_read"
    /\ \E adb_port \in get_adb_tcp_port :
         IF adb_port = SC_ADB_PORT_DEFAULT
         THEN /\ local' = WaitReturns([local EXCEPT !.reads = @ + 1], TRUE)
              /\ pc' = "wait_tcpip_return"
         ELSE IF local.attempts # 0
         THEN /\ local' = [local EXCEPT !.attempts = @ - 1, !.reads = @ + 1]
              /\ pc' = "wait_tcpip_sleep"
         ELSE /\ local' = WaitReturns([local EXCEPT !.reads = @ + 1], FALSE)
              /\ pc' = "wait_tcpip_return"
    /\ UNCHANGED <<params, stopped, interrupted, serial, device_socket_name,
                   tunnel, sockets, fds, proc, observer, remote, device, api, h>>

\* wait_tcpip_mode_enabled: the read in the loop, and while (--attempts)
wait_tcpip_mode_enabled_Read ==
    /\ pc = "wait_tcpip_read"
    /\ \E adb_port \in get_adb_tcp_port :
         IF adb_port = SC_ADB_PORT_DEFAULT
         THEN /\ local' = WaitReturns([local EXCEPT !.reads = @ + 1], TRUE)
              /\ pc' = "wait_tcpip_return"
         ELSE IF local.attempts - 1 # 0
         THEN /\ local' = [local EXCEPT !.attempts = @ - 1, !.reads = @ + 1]
              /\ pc' = "wait_tcpip_sleep"
         ELSE /\ local' = WaitReturns([local EXCEPT !.reads = @ + 1], FALSE)
              /\ pc' = "wait_tcpip_return"
    /\ UNCHANGED <<params, stopped, interrupted, serial, device_socket_name,
                   tunnel, sockets, fds, proc, observer, remote, device, api, h>>

\* sc_server_switch_to_tcpip, after wait_tcpip_mode_enabled: adb_port is
\* SC_ADB_PORT_DEFAULT and ip_port = append_port(ip, adb_port), or NULL
sc_server_switch_to_tcpip_Waited ==
    /\ pc = "wait_tcpip_return"
    /\ IF local.wait_ok
       THEN /\ serial' = append_port(local.ip, SC_ADB_PORT_DEFAULT)
            /\ pc' = "connect_to_tcpip_disconnect"
       ELSE /\ pc' = "error_connection_failed"
            /\ UNCHANGED serial
    /\ local' = [local EXCEPT !.wait_ok = FALSE, !.reads = 0]
    /\ UNCHANGED <<params, stopped, interrupted, device_socket_name, tunnel,
                   sockets, fds, proc, observer, remote, device, api, h>>

\* sc_server_configure_tcpip_known_address: append ":5555" if no port is present
sc_server_configure_tcpip_known_address ==
    /\ pc = "configure_tcpip_known_address"
    /\ serial' = IF ContainsColon(params.tcpip_dst) THEN params.tcpip_dst
                 ELSE append_port(params.tcpip_dst, SC_ADB_PORT_DEFAULT)
    /\ pc' = "connect_to_tcpip_disconnect"
    /\ UNCHANGED <<params, stopped, interrupted, device_socket_name, tunnel,
                   sockets, local, fds, proc, observer, remote, device, api, h>>

AdbLog(hist, cmd, arg, ok) ==
    [hist EXCEPT !.adbLog = Append(@, [cmd |-> cmd, arg |-> arg, ok |-> ok])]

\* sc_server_connect_to_tcpip: sc_adb_disconnect, its result ignored
sc_server_connect_to_tcpip_Disconnect ==
    /\ pc = "connect_to_tcpip_disconnect"
    /\ \E ok \in IntrResults : h' = AdbLog(h, "disconnect", serial, ok)
    /\ pc' = "connect_to_tcpip_connect"
    /\ UNCHANGED <<params, stopped, interrupted, serial, device_socket_name,
                   tunnel, sockets, local, fds, proc, observer, remote, device,
                   api>>

\* a variant that goes on to the push whatever adb connect returned
sc_server_connect_to_tcpip_Connect_Unchecked ==
    /\ pc = "connect_to_tcpip_connect"
    /\ \E ok \in IntrResults :
         /\ h' = AdbLog(h, "connect", serial, ok)
         /\ pc' = "push_server"
    /\ UNCHANGED <<params, stopped, interrupted, serial, device_socket_name,
                   tunnel, sockets, local, fds, proc, observer, remote, device,
                   api>>

\* sc_server_connect_to_tcpip: sc_adb_connect
sc_server_connect_to_tcpip_Connect ==
    /\ pc = "connect_to_tcpip_connect"
    /\ \E ok \in IntrResults :
         /\ h' = AdbLog(h, "connect", serial, ok)
         /\ pc' = IF ok THEN "push_server" ELSE "error_connection_failed"
    /\ UNCHANGED <<params, stopped, interrupted, serial, device_socket_name,
                   tunnel, sockets, local, fds, proc, observer, remote, device,
                   api>>

\* a variant that goes on to the tunnel whatever the push returned
run_server_PushServer_Unchecked ==
    /\ pc = "push_server"
    /\ \E ok \in IntrResults :
         /\ h' = AdbLog(h, "push", serial, ok)
         /\ pc' = IF ListMode(params) THEN "list_execute_server"
                  ELSE "tunnel_open"
    /\ UNCHANGED <<params, stopped, interrupted, serial, device_socket_name,
                   tunnel, sockets, local, fds, proc, observer, remote, device,
                   api>>

\* push_server
run_server_PushServer ==
    /\ pc = "push_server"
    /\ \E ok \in IntrResults :
         /\ h' = AdbLog(h, "push", serial, ok)
         /\ pc' = IF ~ok THEN "error_connection_failed"
                  ELSE IF ListMode(params) THEN "list_execute_server"
                  ELSE "tunnel_open"
    /\ UNCHANGED <<params, stopped, interrupted, serial, device_socket_name,
                   tunnel, sockets, local, fds, proc, observer, remote, device,
                   api>>

-----------------------------------------------------------------------------
(* The worker thread: list path, tunnel, remote process, observer.          *)

\* sc_adb_execute(cmd, 0): the remote process is spawned with the arguments
\* execute_server built; the I/O handle is not involved
Spawned(hist) ==
    [hist EXCEPT !.cmd = ExecuteServerParams(params, tunnel.forward),
                 !.spawns = @ + 1]

\* error_connection_failed: sc_server_kill_adb_if_requested
KillAdbIfRequested(hist) ==
    IF params.kill_adb_on_close THEN [hist EXCEPT !.adbKills = @ + 1] ELSE hist

\* the list_* branch: execute_server
run_server_ListExecute ==
    /\ pc = "list_execute_server"
    /\ \E ok \in BOOLEAN :
         IF ok
         THEN /\ proc' = [proc EXCEPT !.state = "running"]
              /\ h' = Spawned(h)
              /\ pc' = "list_process_wait"
         ELSE /\ pc' = "error_connection_failed"
              /\ UNCHANGED <<proc, h>>
    /\ UNCHANGED <<params, stopped, interrupted, serial, device_socket_name,
                   tunnel, sockets, local, fds, observer, remote, device, api>>

\* a variant of the list_* branch that fires on_connected at once
run_server_ListWait_NoWait ==
    /\ pc = "list_process_wait"
    /\ proc' = [proc EXCEPT !.closed = @ + 1]
    /\ h' = Fire(h, "on_connected", "worker")
    /\ pc' = "done"
    /\ UNCHANGED <<params, stopped, interrupted, serial, device_socket_name,
                   tunnel, sockets, local, fds, observer, remote, device, api>>

\* the list_* branch: sc_process_wait returns when the process has exited;
\* then sc_process_close, on_connected, return 0
run_server_ListWait ==
    /\ pc = "list_process_wait"
    /\ proc.state = "exited"
    /\ proc' = [proc EXCEPT !.reaped = TRUE, !.closed = @ + 1]
    /\ h' = Fire(h, "on_connected", "worker")
    /\ pc' = "done"
    /\ UNCHANGED <<params, stopped, interrupted, serial, device_socket_name,
                   tunnel, sockets, local, fds, observer, remote, device, api>>

\* sc_adb_tunnel_open: a reverse tunnel unless forced or failed, then a
\* forward tunnel; no tunnel once the I/O handle is interrupted
TunnelOpenResults ==
    IF interrupted THEN {"failed"}
    ELSE IF params.force_adb_forward THEN {"forward", "failed"}
    ELSE {"reverse", "forward", "failed"}

\* asprintf of the device socket name, then sc_adb_tunnel_open
run_server_TunnelOpen ==
    /\ pc = "tunnel_open"
    /\ device_socket_name' = DeviceSocketName(params.scid)
    /\ \E r \in TunnelOpenResults :
         CASE r = "reverse" ->
                /\ tunnel' = [enabled |-> TRUE, forward |-> FALSE,
                              server_socket |-> NewFd]
                /\ fds' = fds \cup {NewFd}
                /\ pc' = "execute_server"
           [] r = "forward" ->
                /\ tunnel' = [enabled |-> TRUE, forward |-> TRUE,
                              server_socket |-> SC_SOCKET_NONE]
                /\ pc' = "execute_server"
                /\ UNCHANGED fds
           [] r = "failed" ->
                /\ pc' = "error_connection_failed"
                /\ UNCHANGED <<tunnel, fds>>
    /\ UNCHANGED <<params, stopped, interrupted, serial, sockets, local, proc,
                   observer, remote, device, api, h>>

\* execute_server; on failure sc_adb_tunnel_close
run_server_Execute ==
    /\ pc = "execute_server"
    /\ \E ok \in BOOLEAN :
         IF ok
         THEN /\ proc' = [proc EXCEPT !.state = "running"]
              /\ h' = Spawned(h)
              /\ pc' = "observer_init"
              /\ UNCHANGED <<tunnel, fds>>
         ELSE /\ tunnel' = TunnelClosed
              /\ fds' = CloseList(TunnelCloseFds, fds, 0).fds
              /\ h' = [h EXCEPT !.tunnelCloses = @ + 1,
                                !.badClose = CloseList(TunnelCloseFds, fds, @).bad]
              /\ pc' = "error_connection_failed"
              /\ UNCHANGED proc
    /\ UNCHANGED <<params, stopped, interrupted, serial, device_socket_name,
                   sockets, local, observer, remote, device, api>>

\* the first blocking call of sc_server_connect_to
ConnectToEntry ==
    IF tunnel.forward THEN "connect_to_server"
    ELSE IF params.video THEN "accept_video"
    ELSE IF params.audio THEN "accept_audio"
    ELSE IF params.control THEN "accept_control"
    ELSE "connect_to_tunnel_close"

\* sc_process_observer_init; on failure sc_process_terminate
run_server_ObserverInit ==
    /\ pc = "observer_init"
    /\ \E ok \in BOOLEAN :
         IF ok
         THEN /\ observer' = "running"
              /\ pc' = ConnectToEntry
              /\ local' = [NoLocals EXCEPT !.attempts = ConnectAttempts]
              /\ UNCHANGED proc
         ELSE /\ proc' = [proc EXCEPT !.killed = TRUE]
              /\ pc' = "observer_init_failed_wait"
              /\ UNCHANGED <<observer, local>>
    /\ UNCHANGED <<params, stopped, interrupted, serial, device_socket_name,
                   tunnel, sockets, fds, remote, device, api, h>>

\* a variant of the observer init failure that leaves the tunnel open
run_server_ObserverInitFailed_TunnelLeft ==
    /\ pc = "observer_init_failed_wait"
    /\ proc.state = "exited"
    /\ proc' = [proc EXCEPT !.reaped = TRUE, !.closed = @ + 1]
    /\ pc' = "error_connection_failed"
    /\ UNCHANGED <<params, stopped, interrupted, serial, device_socket_name,
                   tunnel, fds, h, sockets, local, observer, remote, device,
                   api>>

\* observer init failed: sc_process_wait(pid, true), sc_adb_tunnel_close
run_server_ObserverInitFailed ==
    /\ pc = "observer_init_failed_wait"
    /\ proc.state = "exited"
    /\ proc' = [proc EXCEPT !.reaped = TRUE, !.closed = @ + 1]
    /\ tunnel' = TunnelClosed
    /\ fds' = CloseList(TunnelCloseFds, fds, 0).fds
    /\ h' = [h EXCEPT !.tunnelCloses = @ + 1,
                      !.badClose = CloseList(TunnelCloseFds, fds, @).bad]
    /\ pc' = "error_connection_failed"
    /\ UNCHANGED <<params, stopped, interrupted, serial, device_socket_name,
                   sockets, local, observer, remote, device, api>>

-----------------------------------------------------------------------------
(* The worker thread: sc_server_connect_to.                                 *)

\* the blocking call that follows the accept of a stream (reverse tunnel)
AcceptPcAfter(stream) ==
    CASE stream = "video" ->
           IF params.audio THEN "accept_audio"
           ELSE IF params.control THEN "accept_control"
           ELSE "connect_to_tunnel_close"
      [] stream = "audio" ->
           IF params.control THEN "accept_control" ELSE "connect_to_tunnel_close"
      [] stream = "control" -> "connect_to_tunnel_close"

\* net_accept_intr(&server->intr, tunnel->server_socket) for one stream: it
\* returns a connection the remote has made, or SC_SOCKET_NONE once the I/O
\* handle is interrupted, and blocks otherwise.  sock is the local variable
\* that receives the socket.
Accept(stream, sock) ==
    /\ interrupted \/ Pending > 0
    /\ IF interrupted
       THEN /\ h' = [h EXCEPT !.acceptLog = Append(@, SC_SOCKET_NONE)]
            /\ pc' = "connect_to_fail"
            /\ UNCHANGED <<local, fds>>
       ELSE /\ h' = [h EXCEPT !.acceptLog = Append(@, NewFd)]
            /\ local' = [local EXCEPT ![sock] = NewFd]
            /\ fds' = fds \cup {NewFd}
            /\ pc' = AcceptPcAfter(stream)
    /\ UNCHANGED <<params, stopped, interrupted, serial, device_socket_name,
                   tunnel, sockets, proc, observer, remote, device, api>>

sc_server_connect_to_AcceptVideo ==
    /\ pc = "accept_video"
    /\ Accept("video", "video_socket")

\* a variant that stores the audio connection in video_socket
sc_server_connect_to_AcceptAudio_IntoVideo ==
    /\ pc = "accept_audio"
    /\ Accept("audio", "video_socket")

sc_server_connect_to_AcceptAudio ==
    /\ pc = "accept_audio"
    /\ Accept("audio", "audio_socket")

sc_server_connect_to_AcceptControl ==
    /\ pc = "accept_control"
    /\ Accept("control", "control_socket")

\* forward tunnel, after the control socket is decided: lines 567-582
AfterControl(l) == [pc |-> "connect_to_tunnel_close", local |-> l]

\* forward tunnel, after the audio socket is decided: the control socket is
\* the first socket if it is the first enabled stream, else a new connection
AfterAudio(l) ==
    IF params.control /\ (params.video \/ params.audio)
    THEN [pc |-> "forward_connect_control", local |-> l]
    ELSE AfterControl([l EXCEPT !.control_socket =
                          IF params.control THEN l.first_socket
                          ELSE SC_SOCKET_NONE])

\* forward tunnel, after connect_to_server returned first_socket: lines 547-565
AfterFirst(l) ==
    LET l1 == [l EXCEPT !.video_socket =
                   IF params.video THEN l.first_socket ELSE SC_SOCKET_NONE]
    IN  IF params.audio /\ params.video
        THEN [pc |-> "forward_connect_audio", local |-> l1]
        ELSE AfterAudio([l1 EXCEPT !.audio_socket =
                            IF params.audio THEN l.first_socket
                            ELSE SC_SOCKET_NONE])

\* connect_to_server returns: first_socket takes the result, and the loop
\* counter goes out of scope
Returned(l, socket) == [l EXCEPT !.first_socket = socket, !.attempts = 0]

\* connect_to_server: one attempt.  net_socket, connect_and_read_byte (which
\* succeeds when the remote is listening behind the tunnel and the handle is
\* not interrupted), net_close of a socket that failed, and the test of
\* sc_intr_is_interrupted
connect_to_server_Attempt ==
    /\ pc = "connect_to_server"
    /\ \E gotSocket \in BOOLEAN :
         IF gotSocket /\ ~interrupted /\ remote.listening /\ proc.state = "running"
         THEN /\ fds' = fds \cup {NewFd}
              /\ remote' = [remote EXCEPT !.conns = @ + 1]
              /\ pc' = AfterFirst(Returned(local, NewFd)).pc
              /\ local' = AfterFirst(Returned(local, NewFd)).local
         ELSE /\ pc' = IF interrupted THEN "connect_to_fail"
                       ELSE "connect_to_server_sleep"
              /\ local' = IF interrupted THEN Returned(local, SC_SOCKET_NONE)
                          ELSE local
              /\ fds' = IF gotSocket THEN (fds \cup {NewFd}) \ {NewFd} ELSE fds
              /\ UNCHANGED remote
    /\ UNCHANGED <<params, stopped, interrupted, serial, device_socket_name,
                   tunnel, sockets, proc, observer, device, api, h>>

\* a variant of the loop with while (attempts--)
connect_to_server_Sleep_PostDecrement ==
    /\ pc = "connect_to_server_sleep"
    /\ IF stopped
       THEN /\ pc' = "connect_to_fail"
            /\ local' = Returned(local, SC_SOCKET_NONE)
       ELSE /\ local' = IF local.attempts # 0
                        THEN [local EXCEPT !.attempts = @ - 1]
                        ELSE Returned(local, SC_SOCKET_NONE)
            /\ pc' = IF local.attempts # 0 THEN "connect_to_server"
                     ELSE "connect_to_fail"
    /\ UNCHANGED <<params, stopped, interrupted, serial, device_socket_name,
                   tunnel, sockets, fds, proc, observer, remote, device, api, h>>

\* connect_to_server: sc_server_sleep between attempts, and while (--attempts)
connect_to_server_Sleep ==
    /\ pc = "connect_to_server_sleep"
    /\ IF stopped
       THEN /\ pc' = "connect_to_fail"
            /\ local' = Returned(local, SC_SOCKET_NONE)
       ELSE /\ local' = IF local.attempts - 1 # 0
                        THEN [local EXCEPT !.attempts = @ - 1]
                        ELSE Returned(local, SC_SOCKET_NONE)
            /\ pc' = IF local.attempts - 1 # 0 THEN "connect_to_server"
                     ELSE "connect_to_fail"
    /\ UNCHANGED <<params, stopped, interrupted, serial, device_socket_name,
                   tunnel, sockets, fds, proc, observer, remote, device, api, h>>

\* forward tunnel: net_socket and net_connect_intr for a stream after the
\* first.  The connection to the tunnel's local port succeeds whether or not
\* the remote is listening, unless the handle is interrupted.
AfterForward(sock, l) ==
    IF sock = "audio_socket" THEN AfterAudio(l) ELSE AfterControl(l)

ForwardConnect(sock) ==
    \E r \in (IF interrupted THEN {"no_socket", "connect_failed"}
              ELSE {"no_socket", "connect_failed", "connected"}) :
       /\ CASE r = "no_socket" ->
                 /\ pc' = "connect_to_fail"
                 /\ UNCHANGED <<local, fds, remote>>
            [] r = "connect_failed" ->
                 /\ local' = [local EXCEPT ![sock] = NewFd]
                 /\ fds' = fds \cup {NewFd}
                 /\ pc' = "connect_to_fail"
                 /\ UNCHANGED remote
            [] r = "connected" ->
                 /\ local' = AfterForward(sock, [local EXCEPT ![sock] = NewFd]).local
                 /\ pc' = AfterForward(sock, [local EXCEPT ![sock] = NewFd]).pc
                 /\ fds' = fds \cup {NewFd}
                 /\ remote' = IF proc.state = "running"
                              THEN [remote EXCEPT !.conns = @ + 1] ELSE remote
       /\ UNCHANGED <<params, stopped, interrupted, serial, device_socket_name,
                      tunnel, sockets, proc, observer, device, api, h>>

sc_server_connect_to_ForwardAudio ==
    /\ pc = "forward_connect_audio"
    /\ ForwardConnect("audio_socket")

sc_server_connect_to_ForwardControl ==
    /\ pc = "forward_connect_control"
    /\ ForwardConnect("control_socket")

\* a variant that prefers the control socket
FirstSocket_ControlFirst(l) ==
    IF params.control THEN l.control_socket
    ELSE IF params.audio THEN l.audio_socket
    ELSE l.video_socket

\* first_socket = video ? video_socket : audio ? audio_socket : control_socket
FirstSocket(l) ==
    IF params.video THEN l.video_socket
    ELSE IF params.audio THEN l.audio_socket
    ELSE l.control_socket

\* "we don't need the adb tunnel anymore": sc_adb_tunnel_close
sc_server_connect_to_TunnelClose ==
    /\ pc = "connect_to_tunnel_close"
    /\ tunnel' = TunnelClosed
    /\ fds' = CloseList(TunnelCloseFds, fds, 0).fds
    /\ h' = [h EXCEPT !.tunnelCloses = @ + 1,
                      !.badClose = CloseList(TunnelCloseFds, fds, @).bad]
    /\ local' = [local EXCEPT !.read_socket = FirstSocket(local)]
    /\ pc' = "device_read_info"
    /\ UNCHANGED <<params, stopped, interrupted, serial, device_socket_name,
                   sockets, proc, observer, remote, device, api>>

\* a variant that stores the sockets before the device name is read
sc_server_connect_to_ReadInfo_StoreFirst ==
    /\ pc = "device_read_info"
    /\ \/ interrupted
       \/ local.read_socket = SC_SOCKET_NONE
       \/ remote.name = "full"
       \/ proc.state = "exited"
    /\ sockets' = [video_socket |-> local.video_socket,
                   audio_socket |-> local.audio_socket,
                   control_socket |-> local.control_socket]
    /\ pc' = IF ~interrupted /\ local.read_socket # SC_SOCKET_NONE
                 /\ remote.name = "full"
             THEN "now_connected" ELSE "connect_to_fail"
    /\ UNCHANGED <<params, stopped, interrupted, serial, device_socket_name,
                   tunnel, local, fds, proc, observer, remote, device, api, h>>

\* device_read_info: net_recv_all_intr returns the whole field when the remote
\* has sent it, less when the handle is interrupted, the socket is invalid or
\* the remote is gone, and blocks otherwise; on success the sockets are stored
sc_server_connect_to_ReadInfo ==
    /\ pc = "device_read_info"
    /\ \/ interrupted
       \/ local.read_socket = SC_SOCKET_NONE
       \/ remote.name = "full"
       \/ proc.state = "exited"
    /\ IF ~interrupted /\ local.read_socket # SC_SOCKET_NONE /\ remote.name = "full"
       THEN /\ sockets' = [video_socket |-> local.video_socket,
                           audio_socket |-> local.audio_socket,
                           control_socket |-> local.control_socket]
            /\ pc' = "now_connected"
       ELSE /\ pc' = "connect_to_fail"
            /\ UNCHANGED sockets
    /\ UNCHANGED <<params, stopped, interrupted, serial, device_socket_name,
                   tunnel, local, fds, proc, observer, remote, device, api, h>>

\* the descriptors the fail label closes, in order
\* a variant of the fail label that leaves the control socket open
FailCloseList_NoControl ==
    NotNone(<<local.video_socket, local.audio_socket>>)
    \o (IF tunnel.enabled THEN TunnelCloseFds ELSE << >>)

FailCloseList ==
    NotNone(<<local.video_socket, local.audio_socket, local.control_socket>>)
    \o (IF tunnel.enabled THEN TunnelCloseFds ELSE << >>)

\* a variant of the fail label that closes the tunnel without testing it
sc_server_connect_to_Fail_ClosesAgain ==
    /\ pc = "connect_to_fail"
    /\ fds' = CloseList(FailCloseList \o (IF tunnel.enabled THEN << >>
                                          ELSE TunnelCloseFds), fds, 0).fds
    /\ tunnel' = TunnelClosed
    /\ h' = [h EXCEPT !.tunnelCloses = @ + 1,
                      !.badClose = CloseList(FailCloseList
                                      \o (IF tunnel.enabled THEN << >>
                                          ELSE TunnelCloseFds), fds, @).bad]
    /\ proc' = [proc EXCEPT !.killed = TRUE]
    /\ pc' = "connect_failed_wait"
    /\ UNCHANGED <<params, stopped, interrupted, serial, device_socket_name,
                   sockets, local, observer, remote, device, api>>

\* the fail label of sc_server_connect_to, then in run_server
\* sc_process_terminate
sc_server_connect_to_Fail ==
    /\ pc = "connect_to_fail"
    /\ fds' = CloseList(FailCloseList, fds, 0).fds
    /\ tunnel' = TunnelClosed
    /\ h' = [h EXCEPT !.tunnelCloses = IF tunnel.enabled THEN @ + 1 ELSE @,
                      !.badClose = CloseList(FailCloseList, fds, @).bad]
    /\ proc' = [proc EXCEPT !.killed = TRUE]
    /\ pc' = "connect_failed_wait"
    /\ UNCHANGED <<params, stopped, interrupted, serial, device_socket_name,
                   sockets, local, observer, remote, device, api>>

\* connection failed: sc_process_wait(pid, true)
run_server_ConnectFailedWait ==
    /\ pc = "connect_failed_wait"
    /\ proc.state = "exited"
    /\ proc' = [proc EXCEPT !.reaped = TRUE, !.closed = @ + 1]
    /\ pc' = "connect_failed_join"
    /\ UNCHANGED <<params, stopped, interrupted, serial, device_socket_name,
                   tunnel, sockets, local, fds, observer, remote, device, api, h>>

\* connection failed: sc_process_observer_join and _destroy
run_server_ConnectFailedJoin ==
    /\ pc = "connect_failed_join"
    /\ observer = "finished"
    /\ observer' = "joined"
    /\ pc' = "error_connection_failed"
    /\ UNCHANGED <<params, stopped, interrupted, serial, device_socket_name,
                   tunnel, sockets, local, fds, proc, remote, device, api, h>>

-----------------------------------------------------------------------------
(* The worker thread: the end of run_server.                                *)

\* error_connection_failed: sc_server_kill_adb_if_requested,
\* on_connection_failed, return -1
run_server_ErrorConnectionFailed ==
    /\ pc = "error_connection_failed"
    /\ h' = Fire(KillAdbIfRequested(h), "on_connection_failed", "worker")
    /\ pc' = "done"
    /\ UNCHANGED <<params, stopped, interrupted, serial, device_socket_name,
                   tunnel, sockets, local, fds, proc, observer, remote, device,
                   api>>

\* "Now connected": on_connected
run_server_Connected ==
    /\ pc = "now_connected"
    /\ h' = Fire(h, "on_connected", "worker")
    /\ pc' = "wait_stopped"
    /\ UNCHANGED <<params, stopped, interrupted, serial, device_socket_name,
                   tunnel, sockets, local, fds, proc, observer, remote, device,
                   api>>

\* a variant of the wait that also ends when the remote process has terminated
run_server_WaitStopped_OrTerminated ==
    /\ pc = "wait_stopped"
    /\ stopped \/ observer = "finished"
    /\ h' = [h EXCEPT !.netInterrupts =
                 NotNone(<<sockets.video_socket, sockets.audio_socket,
                           sockets.control_socket>>)]
    /\ pc' = "observer_timedwait"
    /\ UNCHANGED <<params, stopped, interrupted, serial, device_socket_name,
                   tunnel, sockets, local, fds, proc, observer, remote, device,
                   api>>

\* a call the worker makes on its way out of run_server
Call(ev, on) == [ev |-> ev, on |-> on]

\* the net_interrupt calls, in the order of the statements
NetInterruptCalls ==
    (IF sockets.video_socket # SC_SOCKET_NONE
     THEN <<Call("net_interrupt", "video")>> ELSE << >>)
    \o (IF sockets.audio_socket # SC_SOCKET_NONE
        THEN <<Call("net_interrupt", "audio")>> ELSE << >>)
    \o (IF sockets.control_socket # SC_SOCKET_NONE
        THEN <<Call("net_interrupt", "control")>> ELSE << >>)

\* "Wait for server_stop()", then net_interrupt on each socket that is set
run_server_WaitStopped ==
    /\ pc = "wait_stopped"
    /\ stopped
    /\ h' = [h EXCEPT !.netInterrupts =
                 NotNone(<<sockets.video_socket, sockets.audio_socket,
                           sockets.control_socket>>),
                      !.teardown = @ \o NetInterruptCalls]
    /\ pc' = "observer_timedwait"
    /\ UNCHANGED <<params, stopped, interrupted, serial, device_socket_name,
                   tunnel, sockets, local, fds, proc, observer, remote, device,
                   api>>

\* a variant that terminates the process whatever the timed wait reported
run_server_TimedWait_AlwaysKills ==
    /\ pc = "observer_timedwait"
    /\ LET terminated == (observer = "finished")
       IN  /\ proc' = [proc EXCEPT !.killed = TRUE]
           /\ h' = [h EXCEPT !.watchdog = IF terminated THEN "terminated"
                                          ELSE "killed",
                             !.teardown = @ \o
                                <<Call("timedwait", IF terminated
                                                    THEN "terminated"
                                                    ELSE "timeout"),
                                  Call("terminate", "process")>>]
    /\ pc' = "observer_join"
    /\ UNCHANGED <<params, stopped, interrupted, serial, device_socket_name,
                   tunnel, sockets, local, fds, observer, remote, device, api>>

\* sc_process_observer_timedwait: whether the process was seen to terminate
\* before the deadline; sc_process_terminate if it was not
run_server_TimedWait ==
    /\ pc = "observer_timedwait"
    /\ LET terminated == (observer = "finished")
       IN  /\ proc' = IF terminated THEN proc ELSE [proc EXCEPT !.killed = TRUE]
           /\ h' = [h EXCEPT !.watchdog = IF terminated THEN "terminated"
                                          ELSE "killed",
                             !.teardown = @ \o
                                <<Call("timedwait", IF terminated
                                                    THEN "terminated"
                                                    ELSE "timeout")>>
                                \o (IF terminated THEN << >>
                                    ELSE <<Call("terminate", "process")>>)]
    /\ pc' = "observer_join"
    /\ UNCHANGED <<params, stopped, interrupted, serial, device_socket_name,
                   tunnel, sockets, local, fds, observer, remote, device, api>>

\* sc_process_observer_join and _destroy, sc_process_close,
\* sc_server_kill_adb_if_requested, return 0
run_server_Join ==
    /\ pc = "observer_join"
    /\ observer = "finished"
    /\ observer' = "joined"
    /\ proc' = [proc EXCEPT !.reaped = TRUE, !.closed = @ + 1]
    /\ h' = [KillAdbIfRequested(h) EXCEPT !.teardown = @ \o
                <<Call("join", "observer"), Call("destroy", "observer"),
                  Call("close", "process")>>
                \o (IF params.kill_adb_on_close
                    THEN <<Call("kill", "adb")>> ELSE << >>)]
    /\ pc' = "done"
    /\ UNCHANGED <<params, stopped, interrupted, serial, device_socket_name,
                   tunnel, sockets, local, fds, remote, device, api>>

-----------------------------------------------------------------------------
(* The process observer thread.                                             *)

\* The observer thread waits for the process to terminate, then calls the
\* listener's on_terminated
ObserverSeesTermination ==
    /\ observer = "running"
    /\ proc.state = "exited"

\* a variant without the call of sc_intr_interrupt
sc_server_on_terminated_NoInterrupt ==
    /\ ObserverSeesTermination
    /\ h' = Fire(h, "on_disconnected", "observer")
    /\ observer' = "finished"
    /\ UNCHANGED <<params, pc, stopped, interrupted, serial, device_socket_name,
                   tunnel, sockets, local, fds, proc, remote, device, api>>

\* a variant that reports on_connection_failed itself before the connection
sc_server_on_terminated_ReportsFailure ==
    /\ ObserverSeesTermination
    /\ interrupted' = TRUE
    /\ h' = Fire(h, IF \E i \in 1..Len(h.cbLog) : h.cbLog[i].cb = "on_connected"
                    THEN "on_disconnected"
                    ELSE "on_connection_failed", "observer")
    /\ observer' = "finished"
    /\ UNCHANGED <<params, pc, stopped, serial, device_socket_name, tunnel,
                   sockets, local, fds, proc, remote, device, api>>

\* The observer sees the process terminated and calls sc_server_on_terminated:
\* sc_intr_interrupt, then on_disconnected
sc_server_on_terminated ==
    /\ ObserverSeesTermination
    /\ interrupted' = TRUE
    /\ h' = Fire(h, "on_disconnected", "observer")
    /\ observer' = "finished"
    /\ UNCHANGED <<params, pc, stopped, serial, device_socket_name, tunnel,
                   sockets, local, fds, proc, remote, device, api>>

-----------------------------------------------------------------------------
(* The environment: the remote server process and the device.               *)

\* reverse tunnel: the remote connects to the host, one connection per stream
RemoteConnect ==
    /\ proc.state = "running"
    /\ tunnel.enabled /\ ~tunnel.forward
    /\ remote.conns < NumEnabled(params)
    /\ remote' = [remote EXCEPT !.conns = @ + 1]
    /\ UNCHANGED <<params, pc, stopped, interrupted, serial, device_socket_name,
                   tunnel, sockets, local, fds, proc, observer, device, api, h>>

\* forward tunnel: the remote starts to listen behind the tunnel
RemoteListen ==
    /\ proc.state = "running"
    /\ tunnel.enabled /\ tunnel.forward
    /\ ~remote.listening
    /\ remote' = [remote EXCEPT !.listening = TRUE]
    /\ UNCHANGED <<params, pc, stopped, interrupted, serial, device_socket_name,
                   tunnel, sockets, local, fds, proc, observer, device, api, h>>

\* once every stream is connected the remote sends the device name on the
\* first one, possibly in two parts
RemoteSendName ==
    /\ proc.state = "running"
    /\ NumEnabled(params) > 0
    /\ remote.conns = NumEnabled(params)
    /\ \/ remote.name = "none" /\ remote' = [remote EXCEPT !.name = "partial"]
       \/ remote.name # "full" /\ remote' = [remote EXCEPT !.name = "full"]
    /\ UNCHANGED <<params, pc, stopped, interrupted, serial, device_socket_name,
                   tunnel, sockets, local, fds, proc, observer, device, api, h>>

\* the remote process exits by itself (at any time)
RemoteExit ==
    /\ proc.state = "running"
    /\ proc' = [proc EXCEPT !.state = "exited"]
    /\ UNCHANGED <<params, pc, stopped, interrupted, serial, device_socket_name,
                   tunnel, sockets, local, fds, observer, remote, device, api, h>>

\* the remote process dies of sc_process_terminate
RemoteKilled ==
    /\ proc.state = "running"
    /\ proc.killed
    /\ proc' = [proc EXCEPT !.state = "exited"]
    /\ UNCHANGED <<params, pc, stopped, interrupted, serial, device_socket_name,
                   tunnel, sockets, local, fds, observer, remote, device, api, h>>

\* adbd restarts in TCP/IP mode after "adb tcpip": the property takes the port
DeviceTcpipEnabled ==
    /\ device.tcpipRequested
    /\ device.tcpport # SC_ADB_PORT_DEFAULT
    /\ device' = [device EXCEPT !.tcpport = SC_ADB_PORT_DEFAULT]
    /\ UNCHANGED <<params, pc, stopped, interrupted, serial, device_socket_name,
                   tunnel, sockets, local, fds, proc, observer, remote, api, h>>

-----------------------------------------------------------------------------
(* The public API, called from another thread.                              *)

sc_server_start ==
    /\ pc = "idle"
    /\ ~api.destroyed
    /\ pc' = "start_server"
    /\ UNCHANGED <<params, stopped, interrupted, serial, device_socket_name,
                   tunnel, sockets, local, fds, proc, observer, remote, device,
                   api, h>>

\* a variant that flips the stopped flag
sc_server_stop_Toggle ==
    /\ api.stopCalls < MaxStops
    /\ ~api.destroyed
    /\ stopped' = ~stopped
    /\ interrupted' = TRUE
    /\ api' = [api EXCEPT !.stopCalls = @ + 1]
    /\ UNCHANGED <<params, pc, serial, device_socket_name, tunnel, sockets,
                   local, fds, proc, observer, remote, device, h>>

\* under the mutex: stopped = true, sc_cond_signal, sc_intr_interrupt
sc_server_stop ==
    /\ api.stopCalls < MaxStops
    /\ ~api.destroyed
    /\ stopped' = TRUE
    /\ interrupted' = TRUE
    /\ api' = [api EXCEPT !.stopCalls = @ + 1]
    /\ UNCHANGED <<params, pc, serial, device_socket_name, tunnel, sockets,
                   local, fds, proc, observer, remote, device, h>>

\* sc_thread_join returns once the worker has returned
sc_server_join ==
    /\ pc = "done"
    /\ ~api.joined
    /\ api' = [api EXCEPT !.joined = TRUE]
    /\ UNCHANGED <<params, pc, stopped, interrupted, serial, device_socket_name,
                   tunnel, sockets, local, fds, proc, observer, remote, device, h>>

\* net_close on each socket that is set (then the frees and destroys)
sc_server_destroy ==
    /\ api.joined
    /\ ~api.destroyed
    /\ LET list == NotNone(<<sockets.video_socket, sockets.audio_socket,
                             sockets.control_socket>>)
       IN  /\ fds' = CloseList(list, fds, 0).fds
           /\ h' = [h EXCEPT !.badClose = CloseList(list, fds, @).bad]
    /\ api' = [api EXCEPT !.destroyed = TRUE]
    /\ UNCHANGED <<params, pc, stopped, interrupted, serial, device_socket_name,
                   tunnel, sockets, local, proc, observer, remote, device>>

-----------------------------------------------------------------------------
(* The specifications.                                                      *)

Worker ==
    \/ run_server_StartServer
    \/ run_server_SelectDevice
    \/ sc_server_switch_to_tcpip_GetIp
    \/ sc_server_switch_to_tcpip_GetPort
    \/ sc_server_switch_to_tcpip_Tcpip
    \/ wait_tcpip_mode_enabled_FirstRead
    \/ wait_tcpip_mode_enabled_Sleep
    \/ wait_tcpip_mode_enabled_Read
    \/ sc_server_switch_to_tcpip_Waited
    \/ sc_server_configure_tcpip_known_address
    \/ sc_server_connect_to_tcpip_Disconnect
    \/ sc_server_connect_to_tcpip_Connect
    \/ run_server_PushServer
    \/ run_server_ListExecute
    \/ run_server_ListWait
    \/ run_server_TunnelOpen
    \/ run_server_Execute
    \/ run_server_ObserverInit
    \/ run_server_ObserverInitFailed
    \/ sc_server_connect_to_AcceptVideo
    \/ sc_server_connect_to_AcceptAudio
    \/ sc_server_connect_to_AcceptControl
    \/ connect_to_server_Attempt
    \/ connect_to_server_Sleep
    \/ sc_server_connect_to_ForwardAudio
    \/ sc_server_connect_to_ForwardControl
    \/ sc_server_connect_to_TunnelClose
    \/ sc_server_connect_to_ReadInfo
    \/ sc_server_connect_to_Fail
    \/ run_server_ConnectFailedWait
    \/ run_server_ConnectFailedJoin
    \/ run_server_ErrorConnectionFailed
    \/ run_server_Connected
    \/ run_server_WaitStopped
    \/ run_server_TimedWait
    \/ run_server_Join

Environment ==
    \/ RemoteConnect
    \/ RemoteListen
    \/ RemoteSendName
    \/ RemoteExit
    \/ RemoteKilled
    \/ DeviceTcpipEnabled

Api ==
    \/ sc_server_start
    \/ sc_server_stop
    \/ sc_server_join
    \/ sc_server_destroy

Next == Worker \/ sc_server_on_terminated \/ Environment \/ Api

Spec == Init /\ [][Next]_vars

\* The scheduler runs every thread that can take a step, and a process that
\* was sent the termination signal dies; nothing makes the remote process exit
\* by itself, the caller call stop, or the device answer.
FairSpec ==
    /\ Init
    /\ [][Next]_vars
    /\ WF_vars(Worker)
    /\ WF_vars(sc_server_on_terminated)
    /\ WF_vars(RemoteKilled)

-----------------------------------------------------------------------------
(* The argument vector and the socket name, over the configurations: the    *)
(* caller fills struct sc_server_params, and the worker runs from the       *)
(* payload push to the spawn of the remote process.                         *)

\* the number of options that differ from their default
NonDefault(p) == Cardinality({f \in DOMAIN p : p[f] # DefaultParams[f]})

\* the caller sets one option of the params handed to sc_server_init
SetParam ==
    /\ pc = "params"
    /\ \E f \in DOMAIN ParamValues :
         \E v \in ParamValues[f] :
            /\ v # params[f]
            /\ NonDefault([params EXCEPT ![f] = v]) <= MaxNonDefault
            /\ params' = [params EXCEPT ![f] = v]
    /\ UNCHANGED <<pc, stopped, interrupted, serial, device_socket_name, tunnel,
                   sockets, local, fds, proc, observer, remote, device, api, h>>

\* the worker has pushed the payload to the selected device
Pushed ==
    /\ pc = "params"
    /\ serial' = UsbSerial
    /\ pc' = IF ListMode(params) THEN "list_execute_server" ELSE "tunnel_open"
    /\ UNCHANGED <<params, stopped, interrupted, device_socket_name, tunnel,
                   sockets, local, fds, proc, observer, remote, device, api, h>>

ArgvInit ==
    /\ params = DefaultParams
    /\ device = [tcpport |-> 0, tcpipRequested |-> FALSE]
    /\ pc = "params"
    /\ InitCommon

ArgvNext ==
    \/ SetParam
    \/ Pushed
    \/ run_server_ListExecute
    \/ run_server_TunnelOpen
    \/ run_server_Execute

ArgvSpec == ArgvInit /\ [][ArgvNext]_vars

-----------------------------------------------------------------------------
(* Properties of the callbacks.                                              *)

\* the callbacks fired so far, in order
Cbs == [i \in 1..Len(h.cbLog) |-> h.cbLog[i].cb]

HasFired(cb) == \E i \in 1..Len(h.cbLog) : h.cbLog[i].cb = cb

\* the worker has returned and no observer thread is left running
RunComplete == pc = "done" /\ observer # "running"

\* C1: once a started worker has run to completion, the callbacks fired are
\* either on_connection_failed alone, once, or on_connected once followed by
\* on_disconnected once; this on every path, the list_* path included.
C1_ExactlyOneOutcome ==
    RunComplete =>
        \/ Cbs = <<"on_connection_failed">>
        \/ Cbs = <<"on_connected", "on_disconnected">>

\* C2: in whatever phase the worker is when sc_server_stop is called, the
\* worker then returns, whether or not the remote process exits by itself.
C2_StopTerminatesWorker == (stopped /\ pc # "idle") ~> (pc = "done")

\* C3: after join and destroy, every socket the controller created or
\* accepted is closed, the tunnel is not enabled, and the remote process, if
\* one was spawned, has been waited for and its handle closed.
C3_NoLeakAfterDestroy ==
    api.destroyed =>
        /\ fds = {}
        /\ ~tunnel.enabled
        /\ h.spawns > 0 => (proc.reaped /\ proc.closed >= 1)

\* C4: a call of sc_server_stop after the first changes nothing: the stopped
\* flag is true and the I/O handle interrupted from the first call on, and no
\* step ever resets either.
C4_StopIdempotent ==
    /\ [](api.stopCalls >= 1 => stopped /\ interrupted)
    /\ [][/\ stopped => stopped'
          /\ interrupted => interrupted'
          /\ (api.stopCalls >= 1 /\ api.stopCalls' > api.stopCalls) =>
                UNCHANGED <<params, pc, stopped, interrupted, serial,
                            device_socket_name, tunnel, sockets, local, fds,
                            proc, observer, remote, device, h>>]_vars

\* stop has been called twice while the worker waits in the CONNECTED phase
C4_Witness ==
    /\ api.stopCalls = 2
    /\ pc = "wait_stopped"
    /\ stopped
    /\ interrupted

\* the worker is in the socket establisher (accept, connect or name read)
InEstablisher ==
    pc \in {"accept_video", "accept_audio", "accept_control",
            "connect_to_server", "connect_to_server_sleep",
            "forward_connect_audio", "forward_connect_control",
            "connect_to_tunnel_close", "device_read_info"}

\* C5: when the remote process has died while the worker is in the socket
\* establisher and the remote had not delivered all that the establisher
\* waits for, the worker returns after on_connection_failed, and this without
\* any call of sc_server_stop.
C5_NoStuckAccept ==
    (/\ InEstablisher
     /\ observer = "running"
     /\ proc.state = "exited"
     /\ remote.name # "full"
     /\ api.stopCalls = 0)
        ~> (pc = "done" /\ HasFired("on_connection_failed"))

\* the remote died, the hook ran on the observer, a blocked accept returned
\* failure and the worker reported the failure, with no call of stop
C5_Witness ==
    /\ pc = "done"
    /\ api.stopCalls = 0
    /\ h.acceptLog # << >>
    /\ h.acceptLog[Len(h.acceptLog)] = SC_SOCKET_NONE
    /\ HasFired("on_connection_failed")
    /\ observer = "joined"

\* C6: when the remote process has exited after it was spawned and before
\* the worker reached the CONNECTED phase, on_disconnected has not fired (and
\* the worker reports on_connection_failed).
C6_NoDisconnectedBeforeConnected ==
    (/\ h.spawns > 0
     /\ ~ListMode(params)
     /\ proc.state = "exited"
     /\ ~HasFired("on_connected")) => ~HasFired("on_disconnected")

-----------------------------------------------------------------------------
(* Properties of the reverse-mode accepts and of the callback threads.      *)

\* the enabled streams in the fixed order video, audio, control
EnabledSeq(p) == SelectSeq(Streams, LAMBDA s : p[s])

\* the socket variable of a stream
SocketField(s) ==
    CASE s = "video" -> "video_socket"
      [] s = "audio" -> "audio_socket"
      [] s = "control" -> "control_socket"

\* the establisher is running or has just failed: its local sockets are live
InConnectTo == InEstablisher \/ pc = "connect_to_fail"

\* the establisher has returned true
Established ==
    \/ pc \in {"now_connected", "wait_stopped", "observer_timedwait",
               "observer_join"}
    \/ pc = "done" /\ HasFired("on_connected") /\ ~ListMode(params)

\* C7: in reverse mode the establisher accepts at most |E| times on the
\* tunnel's server socket, a failed accept ends the sequence, the k-th
\* accepted connection is the socket of the k-th enabled stream in the order
\* video, audio, control, and a successful establisher has accepted exactly
\* |E| connections.
C7_ReverseAcceptOrder ==
    LET E == EnabledSeq(params)
        log == h.acceptLog
        n == Len(h.acceptLog)
    IN  ~tunnel.forward =>
          /\ n <= Len(E)
          /\ \A k \in 1..n : log[k] = SC_SOCKET_NONE => k = n
          /\ InConnectTo =>
                \A k \in 1..n : log[k] # SC_SOCKET_NONE =>
                    local[SocketField(E[k])] = log[k]
          /\ (pc \in {"connect_to_tunnel_close", "device_read_info"}
                \/ Established) =>
                /\ n = Len(E)
                /\ \A k \in 1..n : log[k] # SC_SOCKET_NONE
          /\ Established =>
                /\ \A k \in 1..n : sockets[SocketField(E[k])] = log[k]
                /\ \A s \in {"video", "audio", "control"} \ Enabled(params) :
                      sockets[SocketField(s)] = SC_SOCKET_NONE

\* video is disabled: the first accepted connection is the audio socket and
\* the second the control socket
C7_Witness ==
    /\ ~tunnel.forward
    /\ pc = "now_connected"
    /\ ~params.video /\ params.audio /\ params.control
    /\ Len(h.acceptLog) = 2
    /\ sockets.audio_socket = h.acceptLog[1]
    /\ sockets.control_socket = h.acceptLog[2]

\* C8 as stated: every callback is executed by the worker thread.
C8_AllCallbacksOnWorker ==
    \A i \in 1..Len(h.cbLog) : h.cbLog[i].thread = "worker"

\* C8: on_connection_failed and on_connected are executed by the worker
\* thread and on_disconnected by the process observer thread; the thread
\* that calls sc_server_stop executes none.
C8_CallbackThreads ==
    \A i \in 1..Len(h.cbLog) :
        /\ h.cbLog[i].cb \in {"on_connection_failed", "on_connected"} =>
              h.cbLog[i].thread = "worker"
        /\ h.cbLog[i].cb = "on_disconnected" => h.cbLog[i].thread = "observer"
        /\ h.cbLog[i].thread # "api"

\* a stopped session: on_connected by the worker, on_disconnected by the
\* observer
C8_Witness ==
    /\ api.stopCalls >= 1
    /\ pc = "done"
    /\ h.cbLog = <<[cb |-> "on_connected", thread |-> "worker"],
                   [cb |-> "on_disconnected", thread |-> "observer"]>>

-----------------------------------------------------------------------------
(* Properties of the argument vector and of the device socket name.         *)

\* the keys of the arguments given to the remote process
CmdKeys == {h.cmd[i].key : i \in 1..Len(h.cmd)}

\* the values given to a key
CmdVals(k) == {h.cmd[i].val : i \in {j \in 1..Len(h.cmd) : h.cmd[j].key = k}}

\* every option but the session id and the log level has its default
AllDefault ==
    \A f \in DOMAIN params \ {"scid", "log_level"} : params[f] = DefaultParams[f]

\* C9: the argument vector always holds scid and log_level, and holds another
\* key only when its value differs from the server-side default: the boolean
\* options that default to true only as "false" and only when disabled, the
\* codecs only when not h264 / opus, the sources only as camera / mic, the
\* numeric options only when non-zero, display_id only for a display source,
\* camera_id and camera_position only for a camera source, tunnel_forward
\* only as "true" and only in forward mode; with every option at its default
\* and a reverse tunnel the keys are exactly scid and log_level.
C9_ArgvOnlyNonDefault ==
    h.spawns > 0 =>
        /\ {"scid", "log_level"} \subseteq CmdKeys
        /\ \A k \in CmdKeys \ {"scid", "log_level", "tunnel_forward"} :
              /\ k \in DOMAIN params
              /\ params[k] # DefaultParams[k]
        /\ \A k \in CmdKeys \cap {"video", "audio", "control",
                                  "clipboard_autosync", "downsize_on_error",
                                  "cleanup", "power_on"} :
              CmdVals(k) = {Chars("false")} /\ ~params[k]
        /\ "video_codec" \in CmdKeys =>
              /\ params.video_codec # "SC_CODEC_H264"
              /\ Chars("h264") \notin CmdVals("video_codec")
        /\ "audio_codec" \in CmdKeys =>
              /\ params.audio_codec # "SC_CODEC_OPUS"
              /\ Chars("opus") \notin CmdVals("audio_codec")
        /\ "video_source" \in CmdKeys =>
              CmdVals("video_source") = {Chars("camera")}
        /\ "audio_source" \in CmdKeys =>
              CmdVals("audio_source") = {Chars("mic")}
        /\ \A k \in CmdKeys \cap {"video_bit_rate", "audio_bit_rate",
                                  "max_size", "max_fps"} :
              params[k] # 0 /\ CmdVals(k) = {FmtUnsigned(params[k])}
        /\ "display_id" \in CmdKeys =>
              /\ params.video_source = "SC_VIDEO_SOURCE_DISPLAY"
              /\ params.display_id # 0
        /\ (CmdKeys \cap {"camera_id", "camera_position"}) # {} =>
              params.video_source = "SC_VIDEO_SOURCE_CAMERA"
        /\ "tunnel_forward" \in CmdKeys =>
              CmdVals("tunnel_forward") = {Chars("true")} /\ tunnel.forward
        /\ (AllDefault /\ ~tunnel.forward) => CmdKeys = {"scid", "log_level"}

\* video is disabled and a video bit rate is set: both keys are written
C9_Witness ==
    /\ h.spawns > 0
    /\ ~params.video
    /\ params.video_bit_rate # 0
    /\ {"video", "video_bit_rate"} \subseteq CmdKeys
    /\ "audio" \notin CmdKeys

\* the value of a lowercase hexadecimal digit
HexVal(c) == CHOOSE d \in 0..15 : HexChars[d + 1] = c

\* v * 16 + d modulo 2^32, on the two limbs
Mul16Add(v, d) ==
    U32((v.hi * 16 + v.lo \div 4096) % 65536, (v.lo % 4096) * 16 + d)

RECURSIVE ParseHex(_)
\* the number a string of hexadecimal digits denotes
ParseHex(s) ==
    IF s = << >> THEN U32Zero
    ELSE Mul16Add(ParseHex(SubSeq(s, 1, Len(s) - 1)), HexVal(s[Len(s)]))

\* C10: the device socket name is "scrcpy_" followed by exactly 8 lowercase
\* hexadecimal digits whose value is the session id, and the scid argument
\* given to the remote process carries the same 8 digits.
C10_SocketNameMatchesScid ==
    device_socket_name # NULL =>
        LET name == device_socket_name
            digits == SubSeq(device_socket_name, 8, Len(device_socket_name))
        IN  /\ Len(name) = 15
            /\ SubSeq(name, 1, 7) = <<"s", "c", "r", "c", "p", "y", "_">>
            /\ \A i \in 1..Len(digits) :
                  \E d \in 1..16 : HexChars[d] = digits[i]
            /\ ParseHex(digits) = params.scid
            /\ h.spawns > 0 => CmdVals("scid") = {digits}

\* a session id with leading zero digits, after the spawn
C10_Witness ==
    /\ params.scid = U32(0, 43981)
    /\ device_socket_name # NULL
    /\ h.spawns > 0
    /\ CmdVals("scid") = {<<"0", "0", "0", "0", "a", "b", "c", "d">>}

-----------------------------------------------------------------------------
(* Properties of the stream sockets and of the retry loops.                 *)

\* the controller's socket field of a stream
ServerSocket(s) == sockets[SocketField(s)]

\* C11: once sc_server_connect_to has returned success, the socket field of
\* each stream is set if and only if the stream is enabled, the sockets that
\* are set are pairwise distinct (and open when the function returns); at
\* every moment before that success, and for ever after a failure, the three
\* fields are unset.
C11_SocketsSetIffEnabled ==
    /\ Established =>
          /\ \A s \in {"video", "audio", "control"} :
                (ServerSocket(s) # SC_SOCKET_NONE) <=> params[s]
          /\ \A s, t \in Enabled(params) :
                s # t => ServerSocket(s) # ServerSocket(t)
    /\ pc = "now_connected" =>
          \A s \in Enabled(params) : ServerSocket(s) \in fds
    /\ ~Established =>
          \A s \in {"video", "audio", "control"} :
             ServerSocket(s) = SC_SOCKET_NONE

\* a forward tunnel with the three streams: three distinct open sockets
C11_Witness ==
    /\ pc = "now_connected"
    /\ tunnel.forward
    /\ Enabled(params) = {"video", "audio", "control"}
    /\ Cardinality({sockets.video_socket, sockets.audio_socket,
                    sockets.control_socket}) = 3

\* the worker is in the retry loop of connect_to_server
InConnectLoop == pc \in {"connect_to_server", "connect_to_server_sleep"}

\* C12: connect_to_server starts with 100 attempts left and makes an attempt
\* only with 1..100 attempts left, one less at each attempt, hence at most 100
\* attempts; an attempt that succeeds returns the socket of that attempt; an
\* attempt that fails leaves no socket open; the interruption seen after a
\* failed attempt, or the stop seen by the sleep, ends the loop with no socket
\* and no further attempt; after the 100th failed attempt the loop returns no
\* socket and the establisher fails.
C12_ConnectRetryBound ==
    [][/\ (InConnectLoop' /\ ~InConnectLoop) =>
             local'.attempts = ConnectAttempts /\ pc' = "connect_to_server"
       /\ pc = "connect_to_server" => local.attempts \in 1..ConnectAttempts
       /\ (pc = "connect_to_server" /\ pc' # pc) =>
             /\ local.attempts \in 1..ConnectAttempts
             /\ IF pc' \in {"connect_to_server_sleep", "connect_to_fail"}
                THEN /\ fds' = fds
                     /\ interrupted => pc' = "connect_to_fail"
                     /\ pc' = "connect_to_fail" =>
                           local'.first_socket = SC_SOCKET_NONE
                ELSE /\ ~interrupted
                     /\ local'.first_socket # SC_SOCKET_NONE
                     /\ fds' = fds \cup {local'.first_socket}
                     /\ local'.first_socket \notin fds
       /\ (pc = "connect_to_server_sleep" /\ pc' # pc) =>
             IF stopped \/ local.attempts = 1
             THEN /\ pc' = "connect_to_fail"
                  /\ local'.first_socket = SC_SOCKET_NONE
                  /\ fds' = fds
             ELSE /\ pc' = "connect_to_server"
                  /\ local'.attempts = local.attempts - 1]_vars

\* the 100 attempts failed with neither stop nor interruption: the
\* establisher fails with no socket
C12_Witness ==
    /\ pc = "connect_to_fail"
    /\ tunnel.forward
    /\ local.first_socket = SC_SOCKET_NONE
    /\ ~interrupted
    /\ ~stopped

\* the worker is inside wait_tcpip_mode_enabled
InTcpipWait ==
    pc \in {"wait_tcpip_first_read", "wait_tcpip_sleep", "wait_tcpip_read",
            "wait_tcpip_return"}

\* C13 as stated: the wait makes at most 40 reads of service.adb.tcp.port.
C13_AtMost40Reads == InTcpipWait => local.reads <= TcpipAttempts

\* C13: the wait reads service.adb.tcp.port once at once, then makes up to 40
\* attempts, each a sleep followed by a read: at most 40 sleeps and 41 reads.
\* It succeeds only after a read, the first or that of an attempt k <= 40,
\* when the property is 5555; it fails otherwise after the read of the 40th
\* attempt, or when the sleep sees the stop.
C13_TcpipWaitBound ==
    /\ InTcpipWait => local.reads <= TcpipAttempts + 1
    /\ pc = "wait_tcpip_first_read" => local.reads = 0
    /\ pc \in {"wait_tcpip_sleep", "wait_tcpip_read"} =>
          /\ local.attempts \in 1..TcpipAttempts
          /\ local.reads = 1 + (TcpipAttempts - local.attempts)
    /\ pc = "wait_tcpip_return" =>
          IF local.wait_ok
          THEN /\ local.reads \in 1..(TcpipAttempts + 1)
               /\ device.tcpport = SC_ADB_PORT_DEFAULT
          ELSE stopped \/ local.reads = TcpipAttempts + 1

\* the property never became 5555 and nobody stopped: the wait fails after
\* the read of the 40th attempt, the 41st read
C13_Witness ==
    /\ pc = "wait_tcpip_return"
    /\ ~local.wait_ok
    /\ ~stopped
    /\ local.reads = TcpipAttempts + 1

\* the device name read on the first established socket has failed and
\* sc_server_connect_to has returned false
HandshakeFailed ==
    /\ local.read_socket # SC_SOCKET_NONE
    /\ pc \in {"connect_failed_wait", "connect_failed_join",
               "error_connection_failed", "done"}
    /\ ~HasFired("on_connected")

-----------------------------------------------------------------------------
(* Properties of the switch to TCP/IP.                                      *)

\* adb connect has been issued
ConnectIssued == \E i \in 1..Len(h.adbLog) : h.adbLog[i].cmd = "connect"

\* neither adb connect, nor the payload push, nor the spawn
NoConnectPushSpawn ==
    /\ ~ConnectIssued
    /\ pc \notin {"connect_to_tcpip_disconnect", "connect_to_tcpip_connect",
                  "push_server"}
    /\ h.spawns = 0

\* C15 as stated: from the moment the stop flag is set while the worker is
\* anywhere inside wait_tcpip_mode_enabled, there is no further property
\* read, no adb connect, no push and no spawn, and the run ends with
\* on_connection_failed.
C15_StopAnywhereInWait ==
    /\ [][(stopped /\ InTcpipWait /\ InTcpipWait') =>
             local'.reads = local.reads]_vars
    /\ []((stopped /\ InTcpipWait) => []NoConnectPushSpawn)
    /\ (stopped /\ InTcpipWait) ~>
          (pc = "done" /\ HasFired("on_connection_failed"))

\* C15: when the stop flag is set while the worker sleeps in
\* wait_tcpip_mode_enabled, the sleep returns false and the wait fails with
\* no further property read; when it is set while the worker is in a read of
\* the wait, that read fails and the next sleep, if any, ends the wait; in
\* both cases there is no adb connect, no push and no spawn, and the run ends
\* with on_connection_failed.
C15_StopDuringPoll ==
    /\ [][(stopped /\ pc = "wait_tcpip_sleep" /\ pc' # pc) =>
             /\ pc' = "wait_tcpip_return"
             /\ ~local'.wait_ok
             /\ local'.reads = local.reads]_vars
    /\ [][(stopped /\ pc \in {"wait_tcpip_first_read", "wait_tcpip_read"}
           /\ pc' # pc) =>
             /\ pc' \in {"wait_tcpip_sleep", "wait_tcpip_return"}
             /\ ~local'.wait_ok
             /\ local'.reads = local.reads + 1]_vars
    /\ []((stopped /\ pc \in {"wait_tcpip_first_read", "wait_tcpip_sleep",
                              "wait_tcpip_read"}) => []NoConnectPushSpawn)
    /\ (stopped /\ pc \in {"wait_tcpip_first_read", "wait_tcpip_sleep",
                           "wait_tcpip_read"}) ~>
          (pc = "done" /\ HasFired("on_connection_failed"))

\* the sleep saw the stop after three reads, and the run has failed
C15_Witness ==
    /\ pc = "done"
    /\ stopped
    /\ device.tcpipRequested
    /\ ~ConnectIssued
    /\ h.spawns = 0
    /\ Cbs = <<"on_connection_failed">>

\* a device selected over USB has been switched to TCP/IP and adb connect
\* has succeeded
SwitchedOk ==
    /\ params.tcpip
    /\ params.tcpip_dst = NULL
    /\ \E i \in 1..Len(h.adbLog) :
          h.adbLog[i].cmd = "connect" /\ h.adbLog[i].ok

\* C16 as stated: the request to enable TCP/IP mode is skipped only when the
\* property is 5555, and the serial is IP:5555 whatever the property was.
C16_SerialAlwaysDefaultPort ==
    SwitchedOk =>
        /\ ~device.tcpipRequested => device.tcpport = SC_ADB_PORT_DEFAULT
        /\ serial = append_port(DeviceIp, SC_ADB_PORT_DEFAULT)

\* C16: the request to enable TCP/IP mode is skipped only when the read of
\* the property gave a port P other than 0, and the serial is then IP:P; when
\* the request was made, the serial is IP:5555.
C16_SerialKeepsEnabledPort ==
    SwitchedOk =>
        /\ ~device.tcpipRequested => device.tcpport # 0
        /\ serial = append_port(DeviceIp,
                                IF device.tcpipRequested
                                THEN SC_ADB_PORT_DEFAULT ELSE device.tcpport)
        /\ \A i \in 1..Len(h.adbLog) : h.adbLog[i].arg = serial

\* TCP/IP mode was already enabled on port 4444: no request, serial IP:4444
C16_Witness ==
    /\ SwitchedOk
    /\ ~device.tcpipRequested
    /\ device.tcpport = 4444
    /\ serial = <<"1", "0", ".", "1", ":", "4", "4", "4", "4">>

\* the address given to --tcpip, with ":5555" when it holds no port
KnownEndpoint ==
    IF \E i \in 1..Len(params.tcpip_dst) : params.tcpip_dst[i] = ":"
    THEN params.tcpip_dst
    ELSE params.tcpip_dst \o <<":", "5", "5", "5", "5">>

\* C17: on the known-address path and on the switched unknown-address path,
\* adb disconnect is issued for the endpoint, then, whatever it returned, adb
\* connect for the same endpoint, which is the serial; when adb connect fails
\* there is no push and no spawn and the run ends with on_connection_failed;
\* the push is reached only after adb connect succeeded; on the known-address
\* path the endpoint is the given address, with ":5555" appended if and only
\* if it holds no port.
C17_DisconnectThenConnect ==
    LET log == h.adbLog
        n == Len(h.adbLog)
    IN  /\ \A i \in 1..n : log[i].arg = serial
        /\ \A i \in 1..n : log[i].cmd = "disconnect" => i = 1
        /\ \A i \in 1..n : log[i].cmd = "connect" =>
              i = 2 /\ log[1].cmd = "disconnect"
        /\ pc = "connect_to_tcpip_connect" <=>
              (n = 1 /\ log[1].cmd = "disconnect")
        /\ \A i \in 1..n : log[i].cmd = "push" =>
              \/ i = 1
              \/ i = 3 /\ log[2].cmd = "connect" /\ log[2].ok
        /\ (n >= 2 /\ log[2].cmd = "connect") =>
              IF log[2].ok
              THEN pc \notin {"connect_to_tcpip_disconnect",
                              "connect_to_tcpip_connect"}
              ELSE /\ n = 2
                   /\ pc \in {"error_connection_failed", "done"}
                   /\ h.spawns = 0
                   /\ pc = "done" => Cbs = <<"on_connection_failed">>
        /\ (params.tcpip_dst # NULL /\ n > 0) =>
              log[1].cmd = "disconnect" /\ serial = KnownEndpoint

\* a known address without a port: disconnect failed, connect succeeded, and
\* the worker is about to push to the address with the default port
C17_Witness ==
    /\ params.tcpip_dst = <<"1", "0", ".", "1">>
    /\ pc = "push_server"
    /\ serial = <<"1", "0", ".", "1", ":", "5", "5", "5", "5">>
    /\ Len(h.adbLog) = 2
    /\ ~h.adbLog[1].ok
    /\ h.adbLog[2].ok


-----------------------------------------------------------------------------
(* The order of the phases of run_server.                                   *)

\* the places of run_server between sc_adb_start_server and push_server
SelectionPcs ==
    {"select_device", "configure_tcpip_known_address", "switch_get_device_ip",
     "switch_get_adb_tcp_port", "switch_adb_tcpip", "wait_tcpip_first_read",
     "wait_tcpip_sleep", "wait_tcpip_read", "wait_tcpip_return",
     "connect_to_tcpip_disconnect", "connect_to_tcpip_connect"}

\* the places of run_server on its way to error_connection_failed
FailurePcs ==
    {"observer_init_failed_wait", "connect_to_fail", "connect_failed_wait",
     "connect_failed_join", "error_connection_failed"}

\* the rank of a place of run_server in the order of its statements
PhaseOf(p) ==
    CASE p = "idle" -> 0
      [] p = "start_server" -> 1
      [] p \in SelectionPcs -> 2
      [] p = "push_server" -> 3
      [] p \in {"tunnel_open", "list_execute_server"} -> 4
      [] p \in {"execute_server", "list_process_wait"} -> 5
      [] p = "observer_init" -> 6
      [] p \in {"accept_video", "accept_audio", "accept_control",
                "connect_to_server", "connect_to_server_sleep",
                "forward_connect_audio", "forward_connect_control",
                "connect_to_tunnel_close", "device_read_info"} -> 7
      [] p = "now_connected" -> 8
      [] p \in {"wait_stopped", "observer_timedwait", "observer_join"} -> 9
      [] p = "done" -> 10
      [] OTHER -> 11

\* adb push has returned success
PushSucceeded ==
    \E i \in 1..Len(h.adbLog) : h.adbLog[i].cmd = "push" /\ h.adbLog[i].ok

\* sc_adb_tunnel_open has returned success in this run
TunnelWasOpened == tunnel.enabled \/ h.tunnelCloses > 0

\* what holds of the phases in every state, but for on_connected
PhaseFacts ==
    /\ (pc \notin FailurePcs /\ PhaseOf(pc) \in 3..9) => serial # NULL
    /\ \A i \in 1..Len(h.adbLog) :
          h.adbLog[i].cmd = "push" => serial # NULL /\ h.adbLog[i].arg = serial
    /\ TunnelWasOpened => PushSucceeded /\ ~ListMode(params)
    /\ h.spawns > 0 =>
          /\ h.spawns = 1
          /\ PushSucceeded
          /\ ListMode(params) \/ TunnelWasOpened
    /\ (InEstablisher \/ h.acceptLog # << >> \/ observer # "none") =>
          /\ h.spawns = 1
          /\ TunnelWasOpened
    /\ (InEstablisher \/ h.acceptLog # << >>) => observer # "none"
    /\ HasFired("on_connection_failed") => ~HasFired("on_connected")

\* one step of the worker: to the next statement or to the failure path
PhaseStep ==
    pc' # pc =>
       \/ pc \in FailurePcs /\ pc' \in FailurePcs \cup {"done"}
       \/ /\ pc' \in FailurePcs
          /\ PhaseOf(pc) \in 1..7
       \/ /\ pc \notin FailurePcs /\ pc' \notin FailurePcs
          /\ PhaseOf(pc') \in {PhaseOf(pc), PhaseOf(pc) + 1}
       \/ pc = "list_process_wait" /\ pc' = "done"

\* the sockets and the remote process appear only in their phase
PhaseEffects ==
    /\ h'.spawns > h.spawns =>
          /\ pc \in {"execute_server", "list_execute_server"}
          /\ pc = "execute_server" => tunnel.enabled
    /\ (fds' \ fds # {} /\ pc # "tunnel_open") =>
          InEstablisher /\ h.spawns = 1 /\ observer # "none"
    /\ Len(h'.cbLog) > Len(h.cbLog) /\ h'.cbLog[Len(h'.cbLog)].cb = "on_connected"
          => pc \in {"now_connected", "list_process_wait"}

\* on_connected has fired only with every enabled socket set and the device
\* name read
ConnectedAfterSockets ==
    /\ \A s \in Enabled(params) : ServerSocket(s) # SC_SOCKET_NONE
    /\ remote.name = "full"

\* the statement of C18 as it stands: on_connected in every run fires only
\* after all enabled sockets are established and the device name is read
C18_ConnectedOnlyAfterSockets ==
    (HasFired("on_connected") \/ pc = "now_connected") => ConnectedAfterSockets

\* C18: the phases of run_server are ordered: selection or TCP/IP connection
\* after sc_adb_start_server succeeded, the push with a serial resolved, the
\* tunnel after a successful push, the spawn (non-list path) with the tunnel
\* open, the accepts and connects after the spawn and the observer, and, on
\* the non-list path, on_connected with every enabled socket set and the
\* device name read; on the list path on_connected follows the wait for the
\* remote process; a failed phase is followed by no later phase.
C18_PhasesOrdered ==
    /\ [](PhaseFacts
          /\ (~ListMode(params) =>
                ((HasFired("on_connected") \/ pc = "now_connected")
                    => ConnectedAfterSockets))
          /\ ((ListMode(params) /\ HasFired("on_connected")) =>
                h.spawns = 1 /\ proc.reaped /\ h.acceptLog = << >>))
    /\ [][PhaseStep /\ PhaseEffects]_vars

\* a run by a known address that went through every phase
C18_Witness ==
    /\ pc = "wait_stopped"
    /\ params.tcpip_dst # NULL
    /\ Cbs = <<"on_connected">>
    /\ Len(h.adbLog) = 3
    /\ ~tunnel.forward

-----------------------------------------------------------------------------
(* The failures of the bring-up and the teardown.                           *)

\* on_connection_failed is about to fire or has fired
ConnectionFailedFires ==
    \/ pc = "error_connection_failed"
    \/ pc = "done" /\ HasFired("on_connection_failed")

\* C19: when on_connection_failed fires after a failure that follows the
\* opening of the tunnel (spawn failure, observer init failure, failure of
\* sc_server_connect_to), the tunnel is not enabled any more and has been
\* closed once, the remote process, if launched, has been terminated, waited
\* for and closed once, and the observer, if attached, has been joined.
C19_BringUpFailureCleanup ==
    (ConnectionFailedFires /\ TunnelWasOpened) =>
       /\ ~tunnel.enabled
       /\ h.tunnelCloses = 1
       /\ proc.state # "none" =>
             /\ proc.killed
             /\ proc.state = "exited"
             /\ proc.reaped
             /\ proc.closed = 1
       /\ observer # "none" => observer = "joined"
       /\ observer = "none" => h.acceptLog = << >>

\* the three failures: no process, a process without observer, a process
\* with its observer
C19_Witness ==
    /\ pc = "error_connection_failed"
    /\ TunnelWasOpened
    /\ observer = "joined"
    /\ proc.killed /\ proc.reaped
    /\ local.video_socket # SC_SOCKET_NONE

\* the calls of the timed wait: sc_process_terminate follows a wait that
\* reported no termination, and only that one
TimedWaitCalls(w) ==
    <<Call("timedwait", w)>>
    \o (IF w = "timeout" THEN <<Call("terminate", "process")>> ELSE << >>)

\* the calls that end run_server
LastCalls ==
    <<Call("join", "observer"), Call("destroy", "observer"),
      Call("close", "process")>>
    \o (IF params.kill_adb_on_close THEN <<Call("kill", "adb")>> ELSE << >>)

\* the streams net_interrupt was called for
Interrupted ==
    {h.teardown[i].on :
        i \in {j \in 1..Len(h.teardown) : h.teardown[j].ev = "net_interrupt"}}

\* the worker has made a call on its way out
Called(c) == \E i \in 1..Len(h.teardown) : h.teardown[i] = c

\* C20: after sc_server_stop in the connected state the worker calls
\* net_interrupt on each stream socket that is set, which are those of the
\* enabled streams, and on no other, then the timed wait on the observer,
\* then sc_process_terminate if and only if the timed wait reported that the
\* process had not terminated, then the join and the destroy of the
\* observer, then sc_process_close, once, and last the adb kill-server when
\* it is requested.
C20_TeardownOrder ==
    /\ (pc \in {"idle", "wait_stopped", "now_connected"} \/ ~Established) =>
          h.teardown = << >>
    /\ pc = "observer_timedwait" =>
          /\ stopped
          /\ h.teardown = NetInterruptCalls
          /\ proc.closed = 0
    /\ pc = "observer_join" =>
          /\ \E w \in {"terminated", "timeout"} :
                h.teardown = NetInterruptCalls \o TimedWaitCalls(w)
          /\ proc.closed = 0
          /\ observer # "joined"
    /\ (pc = "done" /\ Established) =>
          /\ \E w \in {"terminated", "timeout"} :
                h.teardown = NetInterruptCalls \o TimedWaitCalls(w) \o LastCalls
          /\ proc.closed = 1
          /\ observer = "joined"
          /\ h.adbKills = IF params.kill_adb_on_close THEN 1 ELSE 0
    /\ h.teardown # << >> =>
          /\ Interrupted = Enabled(params)
          /\ Called(Call("terminate", "process")) <=>
                Called(Call("timedwait", "timeout"))
          /\ Called(Call("terminate", "process")) <=>
                h.watchdog = "killed"
          /\ Called(Call("terminate", "process")) => proc.killed
          /\ Called(Call("timedwait", "terminated")) =>
                proc.state = "exited" /\ ~proc.killed

\* a teardown with the three sockets, the process terminated by the worker
\* and the adb kill-server
C20_Witness ==
    /\ pc = "done"
    /\ params.kill_adb_on_close
    /\ Len(h.teardown) = 9
    /\ h.teardown[5] = Call("terminate", "process")
    /\ h.teardown[9] = Call("kill", "adb")

-----------------------------------------------------------------------------
(* The wait for sc_server_stop, the list path, the tunnel and adb kill.     *)

\* the worker is at on_connected or in the wait that follows it
InConnectedWait == pc \in {"now_connected", "wait_stopped"}

\* the worker has done nothing of the teardown
NoTeardown ==
    /\ h.teardown = << >>
    /\ h.netInterrupts = << >>
    /\ h.watchdog = "none"
    /\ ~proc.killed
    /\ proc.closed = 0
    /\ observer # "joined"
    /\ h.adbKills = 0

\* C21: after on_connected on the non-list path, as long as sc_server_stop
\* has not been called the worker is in the wait, has done no teardown call
\* (net_interrupt, sc_process_terminate, observer join, adb kill-server) and
\* has not returned, whether or not the remote process has terminated and
\* on_disconnected has fired; and when stopped is set, before or during the
\* wait, the worker leaves the wait.
C21_WaitsForStop ==
    /\ []((Established /\ ~stopped) => (InConnectedWait /\ NoTeardown))
    /\ [](InConnectedWait => NoTeardown)
    /\ (InConnectedWait /\ stopped) ~> ~InConnectedWait

\* the remote process has terminated and on_disconnected has fired, no stop
\* was called: the worker is still in the wait
C21_Witness ==
    /\ pc = "wait_stopped"
    /\ ~stopped /\ api.stopCalls = 0
    /\ proc.state = "exited"
    /\ observer = "finished"
    /\ Cbs = <<"on_connected", "on_disconnected">>

\* C22: with one of list_encoders, list_displays, list_cameras set and the
\* push done, the worker spawns the remote process with no tunnel opened, no
\* device socket name computed and no observer attached, on_connected fires
\* once, after the process has exited and its handle was closed, no socket
\* is ever opened, and the worker returns; when the spawn fails the run ends
\* with on_connection_failed and no on_connected.
C22_ListPath ==
    ListMode(params) =>
       /\ ~TunnelWasOpened
       /\ device_socket_name = NULL
       /\ observer = "none"
       /\ fds = {} /\ h.acceptLog = << >>
       /\ \A s \in {"video", "audio", "control"} :
             ServerSocket(s) = SC_SOCKET_NONE
       /\ h.spawns > 0 => h.spawns = 1 /\ PushSucceeded
       /\ pc = "list_process_wait" =>
             h.spawns = 1 /\ Cbs = << >> /\ proc.closed = 0
       /\ HasFired("on_connected") =>
             /\ Cbs = <<"on_connected">>
             /\ pc = "done"
             /\ h.spawns = 1
             /\ proc.state = "exited" /\ proc.closed = 1
       /\ (pc = "done" /\ PushSucceeded) =>
             \/ h.spawns = 1 /\ Cbs = <<"on_connected">>
             \/ h.spawns = 0 /\ Cbs = <<"on_connection_failed">>
       /\ (pc = "done" /\ ~PushSucceeded) =>
             h.spawns = 0 /\ Cbs = <<"on_connection_failed">>

\* a list run that has returned after on_connected
C22_Witness ==
    /\ ListMode(params)
    /\ pc = "done"
    /\ Cbs = <<"on_connected">>
    /\ proc.closed = 1
    /\ h.spawns = 1

\* sc_server_connect_to's local socket of a stream
LocalSocket(s) == local[SocketField(s)]

\* every enabled stream has its connection, open
AllEnabledConnected == \A s \in Enabled(params) : LocalSocket(s) \in fds

\* C23: on the success path of sc_server_connect_to the tunnel is closed,
\* once, when every enabled stream has its accepted or connected socket and
\* before device_read_info is called, and the device name is read from the
\* socket of the first enabled stream in the order video, audio, control,
\* which with a forward tunnel is the socket connect_to_server returned.
C23_TunnelClosedThenNameRead ==
    /\ pc = "connect_to_tunnel_close" =>
          /\ tunnel.enabled /\ h.tunnelCloses = 0
          /\ AllEnabledConnected
    /\ pc = "device_read_info" =>
          /\ ~tunnel.enabled /\ h.tunnelCloses = 1
          /\ AllEnabledConnected
          /\ Enabled(params) # {} =>
                /\ local.read_socket = LocalSocket(EnabledSeq(params)[1])
                /\ local.read_socket \in fds
                /\ tunnel.forward => local.read_socket = local.first_socket
    /\ Established =>
          /\ ~tunnel.enabled /\ h.tunnelCloses = 1
          /\ Enabled(params) # {}
          /\ local.read_socket = ServerSocket(EnabledSeq(params)[1])
          /\ tunnel.forward => local.read_socket = local.first_socket
          /\ remote.name = "full"

\* a forward tunnel without video: the name is read from the audio socket,
\* the one that passed the probe
C23_Witness ==
    /\ pc = "now_connected"
    /\ tunnel.forward
    /\ ~params.video /\ params.audio /\ params.control
    /\ local.read_socket = sockets.audio_socket
    /\ local.read_socket = local.first_socket
    /\ local.read_socket # sockets.control_socket

\* C24: with a forward tunnel the establisher makes exactly |E| successful
\* connections, E the enabled streams: the first alone comes out of the
\* retry loop of connect_to_server and is the socket of the first enabled
\* stream in the order video, audio, control, and each other enabled stream
\* gets one new connection, made once after the loop, in that order.
C24_ForwardConnectsPerStream ==
    (tunnel.forward /\ InEstablisher) =>
       /\ Cardinality(fds) <= NumEnabled(params)
       /\ InConnectLoop => fds = {} /\ local.first_socket = SC_SOCKET_NONE
       /\ ~InConnectLoop =>
             /\ local.attempts = 0
             /\ local.first_socket \in fds
             /\ Enabled(params) # {}
             /\ LocalSocket(EnabledSeq(params)[1]) = local.first_socket
       /\ pc \in {"connect_to_tunnel_close", "device_read_info"} =>
             /\ Cardinality(fds) = NumEnabled(params)
             /\ \A k \in 1..NumEnabled(params) :
                   LocalSocket(EnabledSeq(params)[k]) = k
             /\ \A s \in {"video", "audio", "control"} \ Enabled(params) :
                   LocalSocket(s) = SC_SOCKET_NONE

\* C25: with kill_adb_on_close the worker calls adb kill-server exactly once
\* on every path by which it returns, the failures of the bring-up, the end
\* of a list_* run and the end after sc_server_stop, and before it returns;
\* without kill_adb_on_close it never does.
C25_KillAdbOnEveryReturn ==
    /\ h.adbKills <= 1
    /\ ~params.kill_adb_on_close => h.adbKills = 0
    /\ pc # "done" => h.adbKills = 0
    /\ (pc = "done" /\ params.kill_adb_on_close) => h.adbKills = 1

\* sc_server_connect_to has been called and has returned
ConnectToReturned ==
    /\ observer # "none"
    /\ ~InConnectTo

\* C26: sc_server_connect_to returns with the tunnel disabled on each of its
\* paths and has then closed the tunnel exactly once: before its close on
\* the success path the tunnel is enabled and not closed, at the fail label
\* the tunnel is closed if and only if it is still enabled, and no statement
\* of run_server closes it after the return.
C26_TunnelClosedOncePerCall ==
    /\ h.tunnelCloses <= 1
    /\ (InEstablisher /\ pc # "device_read_info") =>
          tunnel.enabled /\ h.tunnelCloses = 0
    /\ pc = "device_read_info" => ~tunnel.enabled /\ h.tunnelCloses = 1
    /\ pc = "connect_to_fail" =>
          (tunnel.enabled <=> h.tunnelCloses = 0)
    /\ ConnectToReturned => ~tunnel.enabled /\ h.tunnelCloses = 1
    /\ (~tunnel.forward /\ tunnel.server_socket # SC_SOCKET_NONE) =>
          (tunnel.enabled <=> h.tunnelCloses = 0)

\* the device name could not be read after the close of the success path:
\* the fail label has run and the tunnel was closed once
C26_Witness ==
    /\ pc = "connect_failed_wait"
    /\ local.read_socket # SC_SOCKET_NONE
    /\ ~tunnel.enabled
    /\ h.tunnelCloses = 1

\* sc_server_stop has returned and the worker has not made its first step
StoppedBeforeFirstStep == pc = "start_server" /\ stopped

\* the run went from sc_adb_start_server to error_connection_failed
FailedAtStartServer ==
    /\ pc \in {"start_server", "error_connection_failed", "done"}
    /\ serial = NULL
    /\ h.adbLog = << >>
    /\ ~TunnelWasOpened /\ device_socket_name = NULL
    /\ h.spawns = 0 /\ proc.state = "none" /\ observer = "none"
    /\ ~HasFired("on_connected")
    /\ pc # "done" => Cbs = << >>
    /\ pc = "done" => Cbs = <<"on_connection_failed">>

\* C27: when sc_server_stop has returned before the first step of the
\* worker, the interruption being sticky, sc_adb_start_server fails, nothing
\* is pushed, no tunnel is opened, no remote process is spawned, on_connected
\* never fires, and the run ends with on_connection_failed, once.
C27_StopBeforeFirstStep ==
    /\ [](StoppedBeforeFirstStep =>
            [](interrupted /\ FailedAtStartServer))
    /\ StoppedBeforeFirstStep ~> (pc = "done" /\ Cbs = <<"on_connection_failed">>)

\* sc_server_stop was called once, the worker is about to make its first step
C27_Witness ==
    /\ pc = "start_server"
    /\ stopped /\ interrupted
    /\ api.stopCalls = 1
    /\ Cbs = << >>
=============================================================================
